---- MODULE Spec2Model ----
(***************************************************************************)
(* Bin-packing optimizer: the genome decoder (_decode_solution) of the     *)
(* 1D, 2D and 3D optimizers, the rotation generator, and the dispatch      *)
(* service's input validation.                                             *)
(*                                                                         *)
(* Python values are modelled as follows.  A tuple or list is a sequence;  *)
(* a string that the code builds or searches (a package name, a rotation   *)
(* label) is a sequence of one-character strings; an Optional value is a   *)
(* sequence of length 0 (None) or 1; a float that the code obtains by      *)
(* dividing integers is the exact fraction [num, den] in lowest terms.     *)
(***************************************************************************)
EXTENDS Integers, Sequences, FiniteSets, TLC

VARIABLES
    problem,             \* self.problem: the PackingProblem of the optimizer
    individual,          \* the genome handed to _decode_solution
    pc,                  \* position of the decoder
    idx,                 \* _decode_solution: idx, the gene cursor (0-based)
    ci,                  \* index (1-based) of `container` in the container loop
    pi,                  \* index (1-based) of `package` in the placement loop
    unit,                \* the counter `_` of `for _ in range(quantity)`
    package_quantities,  \* quantities read for the current container
    placed_packages,     \* placed_packages of the current container
    current_position,    \* 1D only: the running fill cursor
    container_solutions, \* list of ContainerSolution built so far
    unused_containers,   \* list of unused containers built so far
    unplaced_packages,   \* dict package name -> unplaced quantity
    result,              \* Optional OptimizationResult returned by the decode
    first_decode,        \* Optional [individual, result] of the optimizer's first decode
    interleaved,         \* a different genome has been decoded since the first
    svc,                 \* position of the caller of the service
    supplied,            \* Optional arguments given to PackingProblem(...)
    packing_problem,     \* Optional PackingProblem object held by the caller
    params,              \* Optional arguments of optimize_packing besides the problem
    error,               \* Optional exception that ended construction or the call
    optimizer,           \* Optional optimizer instance created by optimize_packing
    created,             \* genomes created by toolbox.population
    evaluated,           \* calls of toolbox.evaluate
    generation,          \* iterations of the generation loop completed
    progress,            \* current_generation of each progress callback invocation
    generated,           \* Optional call of _generate_rotations with what it returned
    engine,              \* Optional optimizer instance on which optimize() is called
    step,                \* position of the call of optimize()
    population,          \* list of individuals, each with genes and fitness.values
    offspring,           \* list of the generation's offspring
    gen,                 \* the loop variable `generation` of optimize()
    elapsed_time,        \* time.time() - start_time at the last reading of the clock
    reported,            \* the OptimizationProgress records the callback received
    drawn,               \* per offspring, what the mutation loop drew for it
    refs,                \* per offspring, the individual selected and whether the
                         \* list holds a copy of it or the individual itself
    returned             \* Optional outcome of optimize(): a result or an exception

decoder_vars == << problem, individual, pc, idx, ci, pi, unit, package_quantities,
                   placed_packages, current_position, container_solutions,
                   unused_containers, unplaced_packages, result, first_decode,
                   interleaved >>

service_vars == << svc, supplied, packing_problem, params, error, optimizer,
                   created, evaluated, generation, progress >>

generator_vars == << generated >>

ga_vars == << engine, step, population, offspring, gen, elapsed_time, reported, drawn,
             refs, returned >>

vars == << decoder_vars, service_vars, generator_vars, ga_vars >>

-----------------------------------------------------------------------------
(* Bounds of the model *)

\* longest package edge
MaxPkgLen == 2
\* longest container edge
MaxContLen == 3
\* largest max_quantity of a package
MaxQty == 2
\* longest package list and container list handed to PackingProblem(...)
MaxItems == 2
\* largest number of generations requested from optimize_packing
MaxGenerations == 2
\* longest rotation-permission list of a problem whose rotations are generated
MaxPermissions == 2
\* largest population_size of an optimizer instantiated directly
MaxPopulation == 2
\* largest reading, in clock ticks, of time.time() - start_time
MaxElapsed == 1

-----------------------------------------------------------------------------
(* Python helpers *)

None == << >>
Some(v) == << v >>
IsNone(o) == o = << >>
TheValue(o) == o[1]

RECURSIVE GCD(_, _)
GCD(a, b) == IF b = 0 THEN a ELSE GCD(b, a % b)

\* a / b for integers a >= 0, b > 0: the exact quotient
Frac(a, b) == LET g == GCD(a, b) IN [num |-> a \div g, den |-> b \div g]
FracAdd(p, q) == Frac(p.num * q.den + q.num * p.den, p.den * q.den)
FracDivInt(p, n) == Frac(p.num, p.den * n)
\* p <= q for fractions with positive denominators
FracLeq(p, q) == p.num * q.den <= q.num * p.den
FracZero == [num |-> 0, den |-> 1]
FracOne == [num |-> 1, den |-> 1]

RECURSIVE SumSeq(_)
SumSeq(s) == IF s = << >> THEN 0 ELSE Head(s) + SumSeq(Tail(s))

RECURSIVE FracSumSeq(_)
FracSumSeq(s) == IF s = << >> THEN FracZero ELSE FracAdd(Head(s), FracSumSeq(Tail(s)))

RECURSIVE ProdSeq(_)
ProdSeq(s) == IF s = << >> THEN 1 ELSE Head(s) * ProdSeq(Tail(s))

\* list.index(x): the first position (1-based) holding a value equal to x
IndexOf(s, x) == CHOOSE i \in 1..Len(s) : s[i] = x /\ \A j \in 1..(i - 1) : s[j] # x

\* `sub in name` for strings
Contains(name, sub) ==
    \E i \in 0..(Len(name) - Len(sub)) :
        \A k \in 1..Len(sub) : name[i + k] = sub[k]

-----------------------------------------------------------------------------
(* Rotation generator *)

Suffix_r90 == << "_", "r", "9", "0" >>
Suffix_rxy == << "_", "r", "x", "y" >>
Suffix_rxz == << "_", "r", "x", "z" >>
Suffix_ryz == << "_", "r", "y", "z" >>

\* A rotation is the tuple (name, d1, ..., dk)
Rot(name, dims) == << name >> \o dims

GenerateRotations_Replacing(prob, package, package_index) ==
    LET dims == package.dimensions
        original == << Rot(package.name, dims) >>
    IN  IF ~IsNone(prob.allowed_rotations)
           /\ TheValue(prob.allowed_rotations) # << >>
           /\ package_index < Len(TheValue(prob.allowed_rotations))
        THEN LET permissions == TheValue(prob.allowed_rotations)[package_index + 1]
             IN  IF Len(dims) = 2 /\ Len(permissions) >= 1 /\ permissions[1]
                 THEN IF dims[1] # dims[2]
                      THEN << Rot(package.name \o Suffix_r90, << dims[2], dims[1] >>) >>
                      ELSE original
                 ELSE IF Len(dims) = 3 /\ Len(permissions) >= 3
                 THEN LET x == dims[1]
                          y == dims[2]
                          z == dims[3]
                      IN  original
                          \o (IF permissions[1] /\ x # y
                              THEN << Rot(package.name \o Suffix_rxy, << y, x, z >>) >>
                              ELSE << >>)
                          \o (IF permissions[2] /\ x # z
                              THEN << Rot(package.name \o Suffix_rxz, << z, y, x >>) >>
                              ELSE << >>)
                          \o (IF permissions[3] /\ y # z
                              THEN << Rot(package.name \o Suffix_ryz, << x, z, y >>) >>
                              ELSE << >>)
                 ELSE original
        ELSE original

GenerateRotations_Squares(prob, package, package_index) ==
    LET dims == package.dimensions
        original == << Rot(package.name, dims) >>
    IN  IF ~IsNone(prob.allowed_rotations)
           /\ TheValue(prob.allowed_rotations) # << >>
           /\ package_index < Len(TheValue(prob.allowed_rotations))
        THEN LET permissions == TheValue(prob.allowed_rotations)[package_index + 1]
             IN  IF Len(dims) = 2 /\ Len(permissions) >= 1 /\ permissions[1]
                 THEN IF TRUE
                      THEN original \o << Rot(package.name \o Suffix_r90, << dims[2], dims[1] >>) >>
                      ELSE original
                 ELSE IF Len(dims) = 3 /\ Len(permissions) >= 3
                 THEN LET x == dims[1]
                          y == dims[2]
                          z == dims[3]
                      IN  original
                          \o (IF permissions[1] /\ x # y
                              THEN << Rot(package.name \o Suffix_rxy, << y, x, z >>) >>
                              ELSE << >>)
                          \o (IF permissions[2] /\ x # z
                              THEN << Rot(package.name \o Suffix_rxz, << z, y, x >>) >>
                              ELSE << >>)
                          \o (IF permissions[3] /\ y # z
                              THEN << Rot(package.name \o Suffix_ryz, << x, z, y >>) >>
                              ELSE << >>)
                 ELSE original
        ELSE original

\* BaseOptimizer._generate_rotations(package, package_index)
GenerateRotations(prob, package, package_index) ==
    LET dims == package.dimensions
        original == << Rot(package.name, dims) >>
    IN  IF ~IsNone(prob.allowed_rotations)
           /\ TheValue(prob.allowed_rotations) # << >>
           /\ package_index < Len(TheValue(prob.allowed_rotations))
        THEN LET permissions == TheValue(prob.allowed_rotations)[package_index + 1]
             IN  IF Len(dims) = 2 /\ Len(permissions) >= 1 /\ permissions[1]
                 THEN IF dims[1] # dims[2]
                      THEN original \o << Rot(package.name \o Suffix_r90, << dims[2], dims[1] >>) >>
                      ELSE original
                 ELSE IF Len(dims) = 3 /\ Len(permissions) >= 3
                 THEN LET x == dims[1]
                          y == dims[2]
                          z == dims[3]
                      IN  original
                          \o (IF permissions[1] /\ x # y
                              THEN << Rot(package.name \o Suffix_rxy, << y, x, z >>) >>
                              ELSE << >>)
                          \o (IF permissions[2] /\ x # z
                              THEN << Rot(package.name \o Suffix_rxz, << z, y, x >>) >>
                              ELSE << >>)
                          \o (IF permissions[3] /\ y # z
                              THEN << Rot(package.name \o Suffix_ryz, << x, z, y >>) >>
                              ELSE << >>)
                 ELSE original
        ELSE original

\* rotations = self._generate_rotations(package, self.problem.packages.index(package))
RotationsOf(prob, package) ==
    GenerateRotations(prob, package, IndexOf(prob.packages, package) - 1)

-----------------------------------------------------------------------------
(* Placement engine *)

PlacedPackage(name, position, dimensions, rotation) ==
    [package_name |-> name, position |-> position,
     dimensions |-> dimensions, rotation |-> rotation]

\* outcome of trying to place one unit
NotPlaced == [placed |-> FALSE]
Placed(pp) == [placed |-> TRUE, package |-> pp]

\* outcome of a position scan
NoPosition == [found |-> FALSE]
Position(pos) == [found |-> TRUE, position |-> pos]

\* TryRotations1D with the fit test `current_position <= container.dimensions[0]`
RECURSIVE TryRotations1D_NoLength(_, _, _, _)
TryRotations1D_NoLength(rotations, r, cur, container) ==
    IF r > Len(rotations) THEN NotPlaced
    ELSE LET rotation == rotations[r]
         IN  IF cur <= container.dimensions[1]
             THEN Placed(PlacedPackage(rotation[1], << cur >>, << rotation[2] >>,
                                       IF Len(rotation) > 1 THEN Some(rotation[1]) ELSE None))
             ELSE TryRotations1D_NoLength(rotations, r + 1, cur, container)

\* Optimizer1D._decode_solution, `for rotation in rotations:` from index r on
RECURSIVE TryRotations1D(_, _, _, _)
TryRotations1D(rotations, r, cur, container) ==
    IF r > Len(rotations) THEN NotPlaced
    ELSE LET rotation == rotations[r]
             name == rotation[1]
             length == rotation[2]
         IN  IF cur + length <= container.dimensions[1]
             THEN Placed(PlacedPackage(name, << cur >>, << length >>,
                                       IF Len(rotation) > 1 THEN Some(rotation[1]) ELSE None))
             ELSE TryRotations1D(rotations, r + 1, cur, container)

\* _can_place_2d with the last test written `py <= y`
CanPlace2D_MissingHeight(placed, position, dimensions) ==
    \A i \in 1..Len(placed) :
        (position[1] + dimensions[1] <= placed[i].position[1] \/
         placed[i].position[1] + placed[i].dimensions[1] <= position[1] \/
         position[2] + dimensions[2] <= placed[i].position[2] \/
         placed[i].position[2] <= position[2])

\* _can_place_2d with `<` for `<=`: boxes that touch count as overlapping
CanPlace2D_Strict(placed, position, dimensions) ==
    \A i \in 1..Len(placed) :
        (position[1] + dimensions[1] < placed[i].position[1] \/
         placed[i].position[1] + placed[i].dimensions[1] < position[1] \/
         position[2] + dimensions[2] < placed[i].position[2] \/
         placed[i].position[2] + placed[i].dimensions[2] < position[2])

\* Optimizer2D._can_place_2d
CanPlace2D(placed, position, dimensions) ==
    LET x == position[1]
        y == position[2]
        width == dimensions[1]
        height == dimensions[2]
    IN  \A i \in 1..Len(placed) :
            LET px == placed[i].position[1]
                py == placed[i].position[2]
                pw == placed[i].dimensions[1]
                ph == placed[i].dimensions[2]
            IN  (x + width <= px \/ px + pw <= x \/
                 y + height <= py \/ py + ph <= y)

\* `for x in range(0, container_width - width + 1):` from x on, at row y
RECURSIVE ScanX2D(_, _, _, _, _, _)
ScanX2D(placed, x, y, width, height, container_width) ==
    IF x >= container_width - width + 1 THEN NoPosition
    ELSE IF CanPlace2D(placed, << x, y >>, << width, height >>)
         THEN Position(<< x, y >>)
         ELSE ScanX2D(placed, x + 1, y, width, height, container_width)

\* `for y in range(0, container_height - height + 1):` from y on
RECURSIVE ScanY2D(_, _, _, _, _, _)
ScanY2D(placed, y, width, height, container_width, container_height) ==
    IF y >= container_height - height + 1 THEN NoPosition
    ELSE LET row == ScanX2D(placed, 0, y, width, height, container_width)
         IN  IF row.found THEN row
             ELSE ScanY2D(placed, y + 1, width, height, container_width, container_height)

\* the scan with `range(0, container_height)` and `range(0, container_width)`
FindPosition2D_WholeContainer(placed, width, height, container_width, container_height) ==
    ScanY2D(placed, 0, width, height, container_width + width - 1,
            container_height + height - 1)

\* the scan with the loops exchanged: x outermost
FindPosition2D_ColumnMajor(placed, width, height, container_width, container_height) ==
    LET open == { pos \in (0..(container_width - width)) \X (0..(container_height - height)) :
                    CanPlace2D(placed, pos, << width, height >>) }
    IN  IF open = {} THEN NoPosition
        ELSE Position(CHOOSE p \in open :
                          \A q \in open : p[1] < q[1] \/ (p[1] = q[1] /\ p[2] <= q[2]))

\* the bottom-left scan of one orientation
FindPosition2D(placed, width, height, container_width, container_height) ==
    ScanY2D(placed, 0, width, height, container_width, container_height)

\* Optimizer2D._decode_solution, `for rotation in rotations:` from index r on
RECURSIVE TryRotations2D(_, _, _, _, _)
TryRotations2D(rotations, r, package, placed, container) ==
    IF r > Len(rotations) THEN NotPlaced
    ELSE LET rotation == rotations[r]
             name == rotation[1]
             width == IF Len(rotation) >= 3 THEN rotation[2] ELSE package.dimensions[1]
             height == IF Len(rotation) >= 3 THEN rotation[3] ELSE package.dimensions[2]
             at == FindPosition2D(placed, width, height,
                                  container.dimensions[1], container.dimensions[2])
         IN  IF at.found
             THEN Placed(PlacedPackage(name, at.position, << width, height >>,
                                       IF Contains(name, << "_", "r" >>) THEN Some(name) ELSE None))
             ELSE TryRotations2D(rotations, r + 1, package, placed, container)

\* Optimizer3D._can_place_3d
CanPlace3D(placed, position, dimensions) ==
    LET x == position[1]
        y == position[2]
        z == position[3]
        width == dimensions[1]
        height == dimensions[2]
        depth == dimensions[3]
    IN  \A i \in 1..Len(placed) :
            LET px == placed[i].position[1]
                py == placed[i].position[2]
                pz == placed[i].position[3]
                pw == placed[i].dimensions[1]
                ph == placed[i].dimensions[2]
                pd == placed[i].dimensions[3]
            IN  (x + width <= px \/ px + pw <= x \/
                 y + height <= py \/ py + ph <= y \/
                 z + depth <= pz \/ pz + pd <= z)

\* `for x in range(0, container_width - width + 1):` from x on, at (y, z)
RECURSIVE ScanX3D(_, _, _, _, _, _)
ScanX3D(placed, x, y, z, dims, cdims) ==
    IF x >= cdims[1] - dims[1] + 1 THEN NoPosition
    ELSE IF CanPlace3D(placed, << x, y, z >>, dims)
         THEN Position(<< x, y, z >>)
         ELSE ScanX3D(placed, x + 1, y, z, dims, cdims)

\* `for y in range(0, container_height - height + 1):` from y on, at layer z
RECURSIVE ScanY3D(_, _, _, _, _)
ScanY3D(placed, y, z, dims, cdims) ==
    IF y >= cdims[2] - dims[2] + 1 THEN NoPosition
    ELSE LET row == ScanX3D(placed, 0, y, z, dims, cdims)
         IN  IF row.found THEN row
             ELSE ScanY3D(placed, y + 1, z, dims, cdims)

\* `for z in range(0, container_depth - depth + 1):` from z on
RECURSIVE ScanZ3D(_, _, _, _)
ScanZ3D(placed, z, dims, cdims) ==
    IF z >= cdims[3] - dims[3] + 1 THEN NoPosition
    ELSE LET layer == ScanY3D(placed, 0, z, dims, cdims)
         IN  IF layer.found THEN layer
             ELSE ScanZ3D(placed, z + 1, dims, cdims)

\* the bottom-left-back scan of one orientation
FindPosition3D(placed, dims, cdims) == ScanZ3D(placed, 0, dims, cdims)

\* Optimizer3D._decode_solution, `for rotation in rotations:` from index r on
RECURSIVE TryRotations3D(_, _, _, _, _)
TryRotations3D(rotations, r, package, placed, container) ==
    IF r > Len(rotations) THEN NotPlaced
    ELSE LET rotation == rotations[r]
             name == rotation[1]
             dims == IF Len(rotation) >= 4
                     THEN << rotation[2], rotation[3], rotation[4] >>
                     ELSE package.dimensions
             at == FindPosition3D(placed, dims, container.dimensions)
         IN  IF at.found
             THEN Placed(PlacedPackage(name, at.position, dims,
                                       IF Contains(name, << "_", "r" >>) THEN Some(name) ELSE None))
             ELSE TryRotations3D(rotations, r + 1, package, placed, container)

\* the extent of a box: length, area or volume
Extent(dims) == ProdSeq(dims)

\* the utilization with the 1D denominator, container.dimensions[0]
Utilization_ByWidth(placed, container) ==
    Frac(SumSeq([i \in 1..Len(placed) |-> ProdSeq(placed[i].dimensions)]),
         container.dimensions[1])

\* used_volume / total_volume of a container with its placed packages
Utilization(placed, container) ==
    Frac(SumSeq([i \in 1..Len(placed) |-> Extent(placed[i].dimensions)]),
         Extent(container.dimensions))

ContainerSolution(container, placed, utilization) ==
    [container |-> container, placed_packages |-> placed,
     utilization_rate |-> utilization]

\* total_efficiency of _decode_solution
TotalEfficiency(solutions) ==
    IF solutions # << >>
    THEN FracDivInt(FracSumSeq([i \in 1..Len(solutions) |-> solutions[i].utilization_rate]),
                    Len(solutions))
    ELSE FracZero

OptimizationResult(solutions, efficiency, unused, unplaced) ==
    [container_solutions |-> solutions, total_efficiency |-> efficiency,
     unused_containers |-> unused, unplaced_packages |-> unplaced]

\* the dict kept from one decode to the next instead of being built anew
InitialUnplaced_Stale(prob) ==
    IF pc = "done" THEN unplaced_packages
    ELSE [n \in {prob.packages[i].name : i \in 1..Len(prob.packages)} |->
             (CHOOSE pkg \in {prob.packages[i] : i \in 1..Len(prob.packages)} :
                  pkg.name = n).max_quantity]

\* unplaced_packages = {pkg.name: pkg.max_quantity for pkg in self.problem.packages}
InitialUnplaced(prob) ==
    [n \in {prob.packages[i].name : i \in 1..Len(prob.packages)} |->
        LET last == CHOOSE i \in 1..Len(prob.packages) :
                        /\ prob.packages[i].name = n
                        /\ \A j \in (i + 1)..Len(prob.packages) : prob.packages[j].name # n
        IN  prob.packages[last].max_quantity]

\* a count that goes down with every placed unit, also below zero
CountPlaced_Unguarded(unplaced, base_name) ==
    [unplaced EXCEPT ![base_name] = @ - 1]

\* if unplaced_packages[base_name] > 0: unplaced_packages[base_name] -= 1
CountPlaced(unplaced, base_name) ==
    IF unplaced[base_name] > 0
    THEN [unplaced EXCEPT ![base_name] = @ - 1]
    ELSE unplaced

-----------------------------------------------------------------------------
(* Problem model *)

Package(name, dimensions, min_quantity, max_quantity) ==
    [name |-> name, dimensions |-> dimensions,
     min_quantity |-> min_quantity, max_quantity |-> max_quantity]

Container(id, dimensions, is_optional) ==
    [id |-> id, dimensions |-> dimensions, is_optional |-> is_optional]

PackingProblem(packages, containers, allowed_rotations) ==
    [packages |-> packages, containers |-> containers,
     allowed_rotations |-> allowed_rotations]

\* PackingProblem.dimensions_count
DimensionsCount(prob) ==
    IF prob.packages # << >> THEN Len(prob.packages[1].dimensions) ELSE 0

\* _create_individual, the package loop from the j-th package on: one
\* random.randint(min_quantity, max_quantity) is appended per package
RECURSIVE QuantityGenes(_, _)
QuantityGenes(prob, j) ==
    IF j > Len(prob.packages) THEN { << >> }
    ELSE { << quantity >> \o rest :
               quantity \in (prob.packages[j].min_quantity)..(prob.packages[j].max_quantity),
               rest \in QuantityGenes(prob, j + 1) }

\* _create_individual, the container loop from the c-th container on:
\* random.randint(0, 1) or 1 is appended, then the genes of the package loop
RECURSIVE ContainerGenes(_, _)
ContainerGenes(prob, c) ==
    IF c > Len(prob.containers) THEN { << >> }
    ELSE { << use >> \o quantities \o rest :
               use \in (IF prob.containers[c].is_optional THEN 0..1 ELSE {1}),
               quantities \in QuantityGenes(prob, 1),
               rest \in ContainerGenes(prob, c + 1) }

\* genomes of the right length whose genes are all drawn from 0..1
Genomes_AnyUsage(prob) ==
    [1..(Len(prob.containers) * (1 + Len(prob.packages))) -> 0..1]

\* Optimizer*._create_individual: the genomes it can return
Genomes(prob) == ContainerGenes(prob, 1)

-----------------------------------------------------------------------------
(* The problems the model decodes *)

NameA == << "A" >>
NameB == << "B" >>

Boxes(d, n) == [1..d -> 1..n]
UnitBox(d) == [i \in 1..d |-> 1]

\* an edge of 2 along the first axis, 1 along the others
Rod(d) == [i \in 1..d |-> IF i = 1 THEN 2 ELSE 1]
Cube(d, n) == [i \in 1..d |-> n]

AllPermitted(d) == IF d = 2 THEN << TRUE >> ELSE IF d = 3 THEN << TRUE, TRUE, TRUE >> ELSE << >>
NonePermitted(d) == IF d = 2 THEN << FALSE >> ELSE IF d = 3 THEN << FALSE, FALSE, FALSE >> ELSE << >>

\* no permission matrix, or one that lets A rotate freely and B not at all
RotationChoices(d) ==
    IF d = 1 THEN { None }
    ELSE { None, Some(<< AllPermitted(d), NonePermitted(d) >>) }

\* A package type A of any shape, a unit box B, and one container, mandatory
\* or optional, each of whose edges is 1 or the longest.
GeometryProblems(d) ==
    { PackingProblem(<< Package(NameA, a, 0, MaxQty), Package(NameB, UnitBox(d), 1, 1) >>,
                     << Container("c1", c, opt) >>,
                     rot) :
        a \in Boxes(d, MaxPkgLen), c \in [1..d -> {1, MaxContLen}],
        opt \in BOOLEAN, rot \in RotationChoices(d) }

\* A rod A and a cube B, a large container followed by a container too small
\* for any orientation of either package.
TwoContainerProblems(d) ==
    { PackingProblem(<< Package(NameA, Rod(d), 1, MaxQty),
                        Package(NameB, Cube(d, MaxPkgLen), 1, 1) >>,
                     << Container("c1", Cube(d, MaxContLen), opt1),
                        Container("c2", UnitBox(d), opt2) >>,
                     rot) :
        opt1 \in BOOLEAN, opt2 \in BOOLEAN, rot \in RotationChoices(d) }

\* one package A of length 4 (min 1, max 3), one mandatory container of length 10
ScenarioA ==
    PackingProblem(<< Package(NameA, << 4 >>, 1, 3) >>,
                   << Container("c1", << 10 >>, FALSE) >>, None)

\* one package type of size 5x5 with max_quantity 5, one mandatory 10x10 container
ScenarioB ==
    PackingProblem(<< Package(NameA, << 5, 5 >>, 0, 5) >>,
                   << Container("c1", << 10, 10 >>, FALSE) >>, None)

Problems ==
    UNION { GeometryProblems(d) \cup TwoContainerProblems(d) : d \in 1..3 }
    \cup { ScenarioA, ScenarioB }

-----------------------------------------------------------------------------
(* The decoder, Optimizer{1D,2D,3D}._decode_solution, one loop step per action *)

NP == Len(problem.packages)
NC == Len(problem.containers)

DecoderInit(problems) ==
    /\ problem \in problems
    /\ individual = << >>
    /\ pc = "idle"
    /\ idx = 0
    /\ ci = 1
    /\ pi = 1
    /\ unit = 0
    /\ package_quantities = << >>
    /\ placed_packages = << >>
    /\ current_position = 0
    /\ container_solutions = << >>
    /\ unused_containers = << >>
    /\ unplaced_packages = << >>
    /\ result = None
    /\ first_decode = None
    /\ interleaved = FALSE

\* no problem has been constructed and optimize_packing has not been called
ServiceInit ==
    /\ svc = "new"
    /\ supplied = None
    /\ packing_problem = None
    /\ params = None
    /\ error = None
    /\ optimizer = None
    /\ created = 0
    /\ evaluated = 0
    /\ generation = 0
    /\ progress = << >>

\* _generate_rotations has not been called
GeneratorInit == generated = None

\* no optimizer has been instantiated directly
NoEngine ==
    /\ engine = None
    /\ step = "absent"
    /\ population = << >>
    /\ offspring = << >>
    /\ gen = 0
    /\ elapsed_time = 0
    /\ reported = << >>
    /\ drawn = << >>
    /\ refs = << >>
    /\ returned = None

Init == DecoderInit(Problems) /\ ServiceInit /\ GeneratorInit /\ NoEngine

\* _decode_solution is entered with a genome: its locals are initialised
StartDecode ==
    /\ pc \in {"idle", "done"}
    /\ \E g \in Genomes(problem) : individual' = g
    /\ container_solutions' = << >>
    /\ unused_containers' = << >>
    /\ unplaced_packages' = InitialUnplaced(problem)
    /\ idx' = 0
    /\ ci' = 1
    /\ pc' = "container"
    /\ result' = None
    /\ UNCHANGED service_vars
    /\ UNCHANGED generator_vars
    /\ UNCHANGED ga_vars
    /\ UNCHANGED << problem, pi, unit, package_quantities, placed_packages,
                    current_position, first_decode, interleaved >>

\* a decoder that, on a skipped container, steps over the usage gene only
SkipContainer_NoAdvance ==
    /\ pc = "container"
    /\ ci <= NC
    /\ individual[idx + 1] = 0
    /\ unused_containers' = Append(unused_containers, problem.containers[ci])
    /\ idx' = idx + 1
    /\ ci' = ci + 1
    /\ UNCHANGED service_vars
    /\ UNCHANGED generator_vars
    /\ UNCHANGED ga_vars
    /\ UNCHANGED << problem, individual, pc, pi, unit, package_quantities,
                    placed_packages, current_position, container_solutions,
                    unplaced_packages, result, first_decode, interleaved >>

\* `for container in ...:` with `not use_container`: the container is unused
SkipContainer ==
    /\ pc = "container"
    /\ ci <= NC
    /\ individual[idx + 1] = 0
    /\ unused_containers' = Append(unused_containers, problem.containers[ci])
    /\ idx' = idx + 1 + NP
    /\ ci' = ci + 1
    /\ UNCHANGED service_vars
    /\ UNCHANGED generator_vars
    /\ UNCHANGED ga_vars
    /\ UNCHANGED << problem, individual, pc, pi, unit, package_quantities,
                    placed_packages, current_position, container_solutions,
                    unplaced_packages, result, first_decode, interleaved >>

\* `for container in ...:` with use_container: its quantities are read
OpenContainer ==
    /\ pc = "container"
    /\ ci <= NC
    /\ individual[idx + 1] # 0
    /\ package_quantities' = [j \in 1..NP |-> individual[idx + 1 + j]]
    /\ idx' = idx + 1 + NP
    /\ placed_packages' = << >>
    /\ current_position' = 0
    /\ pi' = 1
    /\ unit' = 0
    /\ pc' = "place"
    /\ UNCHANGED service_vars
    /\ UNCHANGED generator_vars
    /\ UNCHANGED ga_vars
    /\ UNCHANGED << problem, individual, ci, container_solutions, unused_containers,
                    unplaced_packages, result, first_decode, interleaved >>

\* the unit loop of a package type is exhausted: the next package type
NextPackage ==
    /\ pc = "place"
    /\ pi <= NP
    /\ unit >= package_quantities[pi]
    /\ pi' = pi + 1
    /\ unit' = 0
    /\ UNCHANGED service_vars
    /\ UNCHANGED generator_vars
    /\ UNCHANGED ga_vars
    /\ UNCHANGED << problem, individual, pc, idx, ci, package_quantities,
                    placed_packages, current_position, container_solutions,
                    unused_containers, unplaced_packages, result, first_decode, interleaved >>

\* the unit loop with `continue` for `break`
AfterAttempt_Continue(attempt) ==
    /\ unit' = unit + 1
    /\ pi' = pi
    /\ IF attempt.placed
       THEN /\ placed_packages' = Append(placed_packages, attempt.package)
            /\ unplaced_packages' = CountPlaced(unplaced_packages, problem.packages[pi].name)
       ELSE UNCHANGED << placed_packages, unplaced_packages >>

\* What one pass of `for _ in range(quantity):` does with the outcome of the
\* rotation loop: record the unit, or leave the unit loop (`break`).
AfterAttempt(attempt) ==
    IF attempt.placed
    THEN /\ placed_packages' = Append(placed_packages, attempt.package)
         /\ unplaced_packages' = CountPlaced(unplaced_packages, problem.packages[pi].name)
         /\ unit' = unit + 1
         /\ pi' = pi
    ELSE /\ pi' = pi + 1
         /\ unit' = 0
         /\ UNCHANGED << placed_packages, unplaced_packages >>

\* Optimizer1D: one pass of the unit loop
PlaceUnit1D ==
    /\ pc = "place"
    /\ DimensionsCount(problem) = 1
    /\ pi <= NP
    /\ unit < package_quantities[pi]
    /\ LET package == problem.packages[pi]
           attempt == TryRotations1D(RotationsOf(problem, package), 1,
                                     current_position, problem.containers[ci])
       IN  /\ AfterAttempt(attempt)
           /\ current_position' = IF attempt.placed
                                  THEN current_position + attempt.package.dimensions[1]
                                  ELSE current_position
    /\ UNCHANGED service_vars
    /\ UNCHANGED generator_vars
    /\ UNCHANGED ga_vars
    /\ UNCHANGED << problem, individual, pc, idx, ci, package_quantities,
                    container_solutions, unused_containers, result, first_decode, interleaved >>

\* Optimizer2D: one pass of the unit loop
PlaceUnit2D ==
    /\ pc = "place"
    /\ DimensionsCount(problem) = 2
    /\ pi <= NP
    /\ unit < package_quantities[pi]
    /\ LET package == problem.packages[pi]
       IN  AfterAttempt(TryRotations2D(RotationsOf(problem, package), 1, package,
                                       placed_packages, problem.containers[ci]))
    /\ UNCHANGED service_vars
    /\ UNCHANGED generator_vars
    /\ UNCHANGED ga_vars
    /\ UNCHANGED << problem, individual, pc, idx, ci, package_quantities, current_position,
                    container_solutions, unused_containers, result, first_decode, interleaved >>

\* Optimizer3D: one pass of the unit loop
PlaceUnit3D ==
    /\ pc = "place"
    /\ DimensionsCount(problem) = 3
    /\ pi <= NP
    /\ unit < package_quantities[pi]
    /\ LET package == problem.packages[pi]
       IN  AfterAttempt(TryRotations3D(RotationsOf(problem, package), 1, package,
                                       placed_packages, problem.containers[ci]))
    /\ UNCHANGED service_vars
    /\ UNCHANGED generator_vars
    /\ UNCHANGED ga_vars
    /\ UNCHANGED << problem, individual, pc, idx, ci, package_quantities, current_position,
                    container_solutions, unused_containers, result, first_decode, interleaved >>

\* every container whose usage gene is set becomes a ContainerSolution
IsUsed_Always(placed) == TRUE

\* `if placed_packages:`
IsUsed(placed) == placed # << >>

\* a close of the container that puts an empty container at the front of the
\* unused list
CloseContainer_UnusedFirst ==
    /\ pc = "place"
    /\ pi > NP
    /\ IF IsUsed(placed_packages)
       THEN /\ container_solutions' =
                   Append(container_solutions,
                          ContainerSolution(problem.containers[ci], placed_packages,
                                            Utilization(placed_packages, problem.containers[ci])))
            /\ UNCHANGED unused_containers
       ELSE /\ unused_containers' = << problem.containers[ci] >> \o unused_containers
            /\ UNCHANGED container_solutions
    /\ ci' = ci + 1
    /\ pc' = "container"
    /\ UNCHANGED service_vars
    /\ UNCHANGED generator_vars
    /\ UNCHANGED ga_vars
    /\ UNCHANGED << problem, individual, idx, pi, unit, package_quantities,
                    placed_packages, current_position, unplaced_packages,
                    result, first_decode, interleaved >>

\* after the package loop: a ContainerSolution if anything was placed, else unused
CloseContainer ==
    /\ pc = "place"
    /\ pi > NP
    /\ IF IsUsed(placed_packages)
       THEN /\ container_solutions' =
                   Append(container_solutions,
                          ContainerSolution(problem.containers[ci], placed_packages,
                                            Utilization(placed_packages, problem.containers[ci])))
            /\ UNCHANGED unused_containers
       ELSE /\ unused_containers' = Append(unused_containers, problem.containers[ci])
            /\ UNCHANGED container_solutions
    /\ ci' = ci + 1
    /\ pc' = "container"
    /\ UNCHANGED service_vars
    /\ UNCHANGED generator_vars
    /\ UNCHANGED ga_vars
    /\ UNCHANGED << problem, individual, idx, pi, unit, package_quantities,
                    placed_packages, current_position, unplaced_packages,
                    result, first_decode, interleaved >>

\* after the container loop: the OptimizationResult is returned
FinishDecode ==
    /\ pc = "container"
    /\ ci > NC
    /\ LET r == OptimizationResult(container_solutions, TotalEfficiency(container_solutions),
                                   unused_containers, unplaced_packages)
       IN  /\ result' = Some(r)
           /\ first_decode' = IF IsNone(first_decode)
                              THEN Some([individual |-> individual, result |-> r])
                              ELSE first_decode
    /\ interleaved' = (interleaved \/ (~IsNone(first_decode)
                                        /\ individual # TheValue(first_decode).individual))
    /\ pc' = "done"
    \* the loop variables of the call go out of scope; the lists and the dict
    \* live on in the result
    /\ idx' = 0
    /\ ci' = 1
    /\ pi' = 1
    /\ unit' = 0
    /\ package_quantities' = << >>
    /\ placed_packages' = << >>
    /\ current_position' = 0
    /\ UNCHANGED service_vars
    /\ UNCHANGED generator_vars
    /\ UNCHANGED ga_vars
    /\ UNCHANGED << problem, individual, container_solutions,
                    unused_containers, unplaced_packages >>

Next ==
    \/ StartDecode
    \/ SkipContainer
    \/ OpenContainer
    \/ NextPackage
    \/ PlaceUnit1D
    \/ PlaceUnit2D
    \/ PlaceUnit3D
    \/ CloseContainer
    \/ FinishDecode

Spec == Init /\ [][Next]_vars

-----------------------------------------------------------------------------
(* Properties of the decoder *)

\* the boxes a and b share a point: on every axis their half-open intervals
\* [position, position + dimensions) intersect
Intersect(a, b) ==
    \A i \in 1..Len(a.position) :
        /\ a.position[i] < b.position[i] + b.dimensions[i]
        /\ b.position[i] < a.position[i] + a.dimensions[i]

NoTwoOverlap(placed) ==
    \A i \in 1..Len(placed) : \A j \in 1..Len(placed) :
        i # j => ~Intersect(placed[i], placed[j])

InBounds(pp, container) ==
    \A i \in 1..Len(container.dimensions) :
        /\ pp.position[i] >= 0
        /\ pp.position[i] + pp.dimensions[i] <= container.dimensions[i]

IsPrefix(p, s) == Len(p) <= Len(s) /\ SubSeq(s, 1, Len(p)) = p

\* the placed package pp is a unit of the package type `package`
IsUnitOf(pp, package) == IsPrefix(package.name, pp.package_name)

UnitsOf(placed, package) ==
    Cardinality({ i \in 1..Len(placed) : IsUnitOf(placed[i], package) })

\* the positions at which a box of size dims lies within a container of size cdims
PositionsWithin(dims, cdims) ==
    LET longest == CHOOSE m \in { cdims[i] : i \in 1..Len(cdims) } :
                       \A i \in 1..Len(cdims) : cdims[i] <= m
    IN  { pos \in [1..Len(cdims) -> 0..longest] :
            \A i \in 1..Len(cdims) : pos[i] + dims[i] <= cdims[i] }

\* a box of size dims at pos overlaps none of the placed packages
Free(placed, pos, dims) ==
    \A k \in 1..Len(placed) :
        ~Intersect([position |-> pos, dimensions |-> dims], placed[k])

FeasiblePositions(placed, dims, cdims) ==
    { pos \in PositionsWithin(dims, cdims) : Free(placed, pos, dims) }

\* some orientation of the package has a feasible position
Placeable(placed, package, container) ==
    LET rotations == RotationsOf(problem, package)
    IN  \E r \in 1..Len(rotations) :
            FeasiblePositions(placed, Tail(rotations[r]), container.dimensions) # {}

\* scan order: p comes strictly before q (the last axis is the outermost loop)
ScansBefore(p, q) ==
    \E i \in 1..Len(p) :
        /\ p[i] < q[i]
        /\ \A k \in (i + 1)..Len(p) : p[k] = q[k]

\* length, area or volume
Measure(dims) ==
    IF Len(dims) = 1 THEN dims[1]
    ELSE IF Len(dims) = 2 THEN dims[1] * dims[2]
    ELSE dims[1] * dims[2] * dims[3]

RECURSIVE UsedExtent(_, _)
UsedExtent(placed, n) ==
    IF n = 0 THEN 0 ELSE Measure(placed[n].dimensions) + UsedExtent(placed, n - 1)

\* C1: no two placed packages of one container overlap, after every placement
\* step and in every ContainerSolution.
C1_NoOverlap ==
    /\ NoTwoOverlap(placed_packages)
    /\ \A s \in 1..Len(container_solutions) :
           NoTwoOverlap(container_solutions[s].placed_packages)

C1_Witness ==
    /\ pc = "done"
    /\ DimensionsCount(problem) = 3
    /\ \E s \in 1..Len(container_solutions) :
           LET placed == container_solutions[s].placed_packages
           IN  /\ Len(placed) >= 3
               /\ \E i \in 1..Len(placed) : ~IsNone(placed[i].rotation)

\* C2: every placed package lies within the container it was placed in, at
\* non-negative coordinates, rotated or not.
C2_InBounds ==
    /\ pc = "place" =>
           \A i \in 1..Len(placed_packages) :
               InBounds(placed_packages[i], problem.containers[ci])
    /\ \A s \in 1..Len(container_solutions) :
           \A i \in 1..Len(container_solutions[s].placed_packages) :
               InBounds(container_solutions[s].placed_packages[i],
                        container_solutions[s].container)

\* a rotated unit of a package whose original orientation is larger than the
\* container on some axis
C2_Witness ==
    \E s \in 1..Len(container_solutions) :
        LET sol == container_solutions[s]
        IN  \E i \in 1..Len(sol.placed_packages) : \E j \in 1..NP :
                /\ IsUnitOf(sol.placed_packages[i], problem.packages[j])
                /\ ~IsNone(sol.placed_packages[i].rotation)
                /\ Len(problem.packages[j].dimensions) >= 2
                /\ \E a \in 1..Len(sol.container.dimensions) :
                       problem.packages[j].dimensions[a] > sol.container.dimensions[a]

\* C3: the utilization_rate of every ContainerSolution is the extent of its
\* placed packages over the extent of its container, and is in (0, 1].
C3_Utilization ==
    \A s \in 1..Len(container_solutions) :
        LET sol == container_solutions[s]
            used == UsedExtent(sol.placed_packages, Len(sol.placed_packages))
            total == Measure(sol.container.dimensions)
            u == sol.utilization_rate
        IN  /\ Len(sol.placed_packages) >= 1
            /\ u.den > 0
            /\ u.num * total = used * u.den
            /\ 0 < u.num
            /\ u.num <= u.den

\* a 3D container filled completely by several packages, one of them rotated
C3_Witness ==
    /\ DimensionsCount(problem) = 3
    /\ \E s \in 1..Len(container_solutions) :
           LET placed == container_solutions[s].placed_packages
           IN  /\ Len(placed) >= 2
               /\ \E i \in 1..Len(placed) : ~IsNone(placed[i].rotation)
               /\ container_solutions[s].utilization_rate = FracOne

\* C4: a unit that fits nowhere in any orientation ends the unit loop of its
\* package type (the next step is at the next package type, nothing placed),
\* and a unit that fits somewhere is placed.  So while a container is filled,
\* the units lie in package-list order, each finished type j has k <= quantity
\* units, and k < quantity only if no orientation of j was placeable right
\* after its k-th unit.
C4_StepRule ==
    (/\ pc = "place"
     /\ pi <= NP
     /\ unit < package_quantities[pi])
    => IF Placeable(placed_packages, problem.packages[pi], problem.containers[ci])
       THEN /\ pc' = "place"
            /\ pi' = pi
            /\ unit' = unit + 1
            /\ Len(placed_packages') = Len(placed_packages) + 1
            /\ IsUnitOf(placed_packages'[Len(placed_packages')], problem.packages[pi])
       ELSE /\ pc' = "place"
            /\ pi' = pi + 1
            /\ unit' = 0
            /\ placed_packages' = placed_packages

\* number of placed units of the package types 1..j
UnitsUpTo(placed, j) ==
    Cardinality({ i \in 1..Len(placed) :
                    \E t \in 1..j : IsUnitOf(placed[i], problem.packages[t]) })

C4_Counts ==
    pc = "place" =>
        /\ \A a \in 1..Len(placed_packages) : \A b \in 1..Len(placed_packages) :
               a < b => \E t \in 1..NP : \E u \in t..NP :
                            /\ IsUnitOf(placed_packages[a], problem.packages[t])
                            /\ IsUnitOf(placed_packages[b], problem.packages[u])
        /\ pi <= NP => UnitsOf(placed_packages, problem.packages[pi]) = unit
        /\ \A j \in 1..(pi - 1) :
               LET k == UnitsOf(placed_packages, problem.packages[j])
                   after == SubSeq(placed_packages, 1, UnitsUpTo(placed_packages, j))
               IN  /\ k <= package_quantities[j]
                   /\ k < package_quantities[j] =>
                          ~Placeable(after, problem.packages[j], problem.containers[ci])

C4_FailFast == [][C4_StepRule]_vars /\ []C4_Counts

\* the first type stopped short of its quantity after one unit, and a unit of
\* the next type was placed after it
C4_Witness ==
    /\ pc = "place"
    /\ pi > NP
    /\ NP = 2
    /\ UnitsOf(placed_packages, problem.packages[1]) >= 1
    /\ UnitsOf(placed_packages, problem.packages[1]) < package_quantities[1]
    /\ UnitsOf(placed_packages, problem.packages[2]) = 1

\* C5: in 2D and 3D every placed unit has the first orientation, in generator
\* order, that had a feasible position when it was placed, at the first
\* feasible position of that orientation in scan order (y then x; z, y, x).
C5_FirstFit ==
    (pc = "place" /\ DimensionsCount(problem) \in {2, 3}) =>
        \A n \in 1..Len(placed_packages) :
            LET pp == placed_packages[n]
                before == SubSeq(placed_packages, 1, n - 1)
                cdims == problem.containers[ci].dimensions
            IN  \E j \in 1..NP :
                    LET rotations == RotationsOf(problem, problem.packages[j])
                    IN  \E r \in 1..Len(rotations) :
                            /\ IsUnitOf(pp, problem.packages[j])
                            /\ rotations[r][1] = pp.package_name
                            /\ Tail(rotations[r]) = pp.dimensions
                            /\ pp.position \in FeasiblePositions(before, pp.dimensions, cdims)
                            /\ \A q \in 1..(r - 1) :
                                   FeasiblePositions(before, Tail(rotations[q]), cdims) = {}
                            /\ \A pos \in FeasiblePositions(before, pp.dimensions, cdims) :
                                   pos = pp.position \/ ScansBefore(pp.position, pos)

\* a 3D unit in a later orientation, placed away from the origin beside
\* earlier units
C5_Witness ==
    /\ pc = "place"
    /\ DimensionsCount(problem) = 3
    /\ \E n \in 2..Len(placed_packages) :
           /\ ~IsNone(placed_packages[n].rotation)
           /\ placed_packages[n].position # << 0, 0, 0 >>

\* C6: a decode of the genome of the optimizer's first decode returns the
\* result of the first decode, whatever was decoded in between.
C6_DecodeDeterminism ==
    (/\ pc = "done"
     /\ ~IsNone(first_decode)
     /\ individual = TheValue(first_decode).individual)
    => TheValue(result) = TheValue(first_decode).result

\* the first genome is decoded again after another genome
C6_Witness ==
    /\ pc = "done"
    /\ interleaved
    /\ individual = TheValue(first_decode).individual
    /\ \E s \in 1..Len(TheValue(result).container_solutions) :
           Len(TheValue(result).container_solutions[s].placed_packages) >= 2
    /\ \E n \in DOMAIN TheValue(result).unplaced_packages :
           TheValue(result).unplaced_packages[n] > 0

\* C7: in 1D the units of a container lie end to end from 0 in placement
\* order.  Scenario A: at most 2 units of A are placed, at 0 and 4, and the
\* utilization of 2 units is 0.8.
C7_Contiguous1D ==
    /\ DimensionsCount(problem) = 1 =>
           /\ pc = "place" =>
                  \A i \in 1..Len(placed_packages) :
                      placed_packages[i].position = << UsedExtent(placed_packages, i - 1) >>
           /\ \A s \in 1..Len(container_solutions) :
                  LET placed == container_solutions[s].placed_packages
                  IN  \A i \in 1..Len(placed) :
                          placed[i].position = << UsedExtent(placed, i - 1) >>
    /\ problem = ScenarioA =>
           /\ Len(placed_packages) <= 2
           /\ \A s \in 1..Len(container_solutions) :
                  LET placed == container_solutions[s].placed_packages
                      u == container_solutions[s].utilization_rate
                  IN  /\ Len(placed) <= 2
                      /\ \A i \in 1..Len(placed) :
                             /\ placed[i].package_name = NameA
                             /\ placed[i].position = << 4 * (i - 1) >>
                      /\ Len(placed) = 2 => u.num * 10 = 8 * u.den

\* Scenario A decoded with 3 units requested: 2 placed
C7_Witness ==
    /\ problem = ScenarioA
    /\ pc = "done"
    /\ individual = << 1, 3 >>
    /\ Len(container_solutions) = 1
    /\ Len(container_solutions[1].placed_packages) = 2

\* C8: Scenario B: never more than 4 units in the container; a quantity gene
\* of 4 or 5 places exactly 4, at (0,0), (5,0), (0,5), (5,5); at least one
\* unit of the package type stays unplaced.
C8_ScenarioB ==
    problem = ScenarioB =>
        /\ Len(placed_packages) <= 4
        /\ \A s \in 1..Len(container_solutions) :
               Len(container_solutions[s].placed_packages) <= 4
        /\ pc = "done" =>
               /\ TheValue(result).unplaced_packages[NameA] >= 1
               /\ individual[2] >= 4 =>
                      /\ Len(container_solutions) = 1
                      /\ [i \in 1..Len(container_solutions[1].placed_packages) |->
                             container_solutions[1].placed_packages[i].position]
                         = << << 0, 0 >>, << 5, 0 >>, << 0, 5 >>, << 5, 5 >> >>

\* Scenario B decoded with all 5 units requested
C8_Witness ==
    /\ problem = ScenarioB
    /\ pc = "done"
    /\ individual = << 1, 5 >>
    /\ TheValue(result).unplaced_packages[NameA] = 1

\* every orientation of every package is larger than the container on some axis
NothingFits(container) ==
    \A j \in 1..NP :
        LET rotations == RotationsOf(problem, problem.packages[j])
        IN  \A r \in 1..Len(rotations) :
                \E a \in 1..Len(container.dimensions) :
                    Tail(rotations[r])[a] > container.dimensions[a]

\* C9: an optional container in which nothing fits is never in
\* container_solutions and is in unused_containers of the result, whatever
\* its usage gene.
C9_OptionalUnused ==
    \A c \in 1..NC :
        (problem.containers[c].is_optional /\ NothingFits(problem.containers[c])) =>
            /\ \A s \in 1..Len(container_solutions) :
                   container_solutions[s].container # problem.containers[c]
            /\ pc = "done" =>
                   /\ \E k \in 1..Len(TheValue(result).unused_containers) :
                          TheValue(result).unused_containers[k] = problem.containers[c]
                   /\ \A s \in 1..Len(TheValue(result).container_solutions) :
                          TheValue(result).container_solutions[s].container
                              # problem.containers[c]

\* such a container decoded with its usage gene set, after a used container
C9_Witness ==
    /\ pc = "done"
    /\ Len(container_solutions) >= 1
    /\ \E c \in 1..NC :
           /\ problem.containers[c].is_optional
           /\ NothingFits(problem.containers[c])
           /\ individual[(c - 1) * (1 + NP) + 1] = 1

-----------------------------------------------------------------------------
(* Construction of a problem and the optimization service.                 *)
(* The optional fields weight, value, max_weight and cost keep their       *)
(* default None.  The genomes of a run are counted, not stored: what the   *)
(* decode of a genome returns is specified by Spec.                        *)

\* a raised exception
Exception(type, message, errors) ==
    [type |-> type, message |-> message, errors |-> errors]

ValueError(message) == Exception("ValueError", message, << >>)

\* Package.__post_init__: the message of the ValueError raised, or None
PackagePostInit(package) ==
    IF package.min_quantity < 0
    THEN Some("Minimum quantity cannot be negative")
    ELSE IF package.max_quantity < package.min_quantity
    THEN Some("Maximum quantity cannot be less than minimum quantity")
    ELSE IF Len(package.dimensions) \notin {1, 2, 3}
    THEN Some("Dimensions must be 1D, 2D, or 3D")
    ELSE IF \E a \in 1..Len(package.dimensions) : package.dimensions[a] <= 0
    THEN Some("All dimensions must be positive")
    ELSE None

\* Container.__post_init__: the message of the ValueError raised, or None
ContainerPostInit(container) ==
    IF Len(container.dimensions) \notin {1, 2, 3}
    THEN Some("Dimensions must be 1D, 2D, or 3D")
    ELSE IF \E a \in 1..Len(container.dimensions) : container.dimensions[a] <= 0
    THEN Some("All dimensions must be positive")
    ELSE None

\* set(len(x.dimensions) for x in items)
DimsOf(items) == { Len(items[i].dimensions) : i \in 1..Len(items) }

\* PackingProblem.__post_init__: the message of the ValueError raised, or None
PackingProblemPostInit(packages, containers) ==
    LET package_dims == DimsOf(packages)
        container_dims == DimsOf(containers)
    IN  IF packages = << >>
        THEN Some("At least one package must be provided")
        ELSE IF containers = << >>
        THEN Some("At least one container must be provided")
        ELSE IF Cardinality(package_dims) > 1 \/ Cardinality(container_dims) > 1
        THEN Some("All packages and containers must have the same number of dimensions")
        ELSE IF package_dims # container_dims
        THEN Some("Packages and containers must have the same number of dimensions")
        ELSE None

\* the first exception of the objects built one after the other
RECURSIVE FirstPackageError(_)
FirstPackageError(packages) ==
    IF packages = << >> THEN None
    ELSE IF ~IsNone(PackagePostInit(Head(packages))) THEN PackagePostInit(Head(packages))
    ELSE FirstPackageError(Tail(packages))

RECURSIVE FirstContainerError(_)
FirstContainerError(containers) ==
    IF containers = << >> THEN None
    ELSE IF ~IsNone(ContainerPostInit(Head(containers)))
    THEN ContainerPostInit(Head(containers))
    ELSE FirstContainerError(Tail(containers))

\* the packages are built, then the containers, then the problem
ConstructError(packages, containers) ==
    IF ~IsNone(FirstPackageError(packages)) THEN FirstPackageError(packages)
    ELSE IF ~IsNone(FirstContainerError(containers)) THEN FirstContainerError(containers)
    ELSE PackingProblemPostInit(packages, containers)

\* not s or not s.strip()
IsBlank(s) == \A i \in 1..Len(s) : s[i] = " "

\* an error message of the problem itself, and one of its i-th package or container
Plain(message) == << "", 0, message >>
Prefixed(kind, i, message) == << kind, i, message >>

\* validate_package
ValidatePackage(package) ==
    (IF IsBlank(package.name) THEN << "Package name cannot be empty" >> ELSE << >>)
    \o (IF Len(package.dimensions) \notin {1, 2, 3}
        THEN << "Package dimensions must be 1D, 2D, or 3D" >> ELSE << >>)
    \o (IF \E a \in 1..Len(package.dimensions) : package.dimensions[a] <= 0
        THEN << "All package dimensions must be positive" >> ELSE << >>)
    \o (IF package.min_quantity < 0
        THEN << "Minimum quantity cannot be negative" >> ELSE << >>)
    \o (IF package.max_quantity < package.min_quantity
        THEN << "Maximum quantity cannot be less than minimum quantity" >> ELSE << >>)

\* validate_container; the ids that are empty or blank are "" and " "
ValidateContainer(container) ==
    (IF container.id \in {"", " "} THEN << "Container ID cannot be empty" >> ELSE << >>)
    \o (IF Len(container.dimensions) \notin {1, 2, 3}
        THEN << "Container dimensions must be 1D, 2D, or 3D" >> ELSE << >>)
    \o (IF \E a \in 1..Len(container.dimensions) : container.dimensions[a] <= 0
        THEN << "All container dimensions must be positive" >> ELSE << >>)

\* errors.extend([f"Package {i+1}: {error}" ...]) for the packages from the i-th on
RECURSIVE PackageErrorsFrom(_, _)
PackageErrorsFrom(packages, i) ==
    IF i > Len(packages) THEN << >>
    ELSE [ k \in 1..Len(ValidatePackage(packages[i])) |->
               Prefixed("Package", i, ValidatePackage(packages[i])[k]) ]
         \o PackageErrorsFrom(packages, i + 1)

RECURSIVE ContainerErrorsFrom(_, _)
ContainerErrorsFrom(containers, i) ==
    IF i > Len(containers) THEN << >>
    ELSE [ k \in 1..Len(ValidateContainer(containers[i])) |->
               Prefixed("Container", i, ValidateContainer(containers[i])[k]) ]
         \o ContainerErrorsFrom(containers, i + 1)

DimensionErrors_None(prob) == << >>

\* validate_packing_problem: the dimension consistency check
DimensionErrors(prob) ==
    LET package_dims == DimsOf(prob.packages)
        container_dims == DimsOf(prob.containers)
    IN  IF prob.packages # << >> /\ prob.containers # << >>
        THEN (IF Cardinality(package_dims) > 1
              THEN << Plain("All packages must have the same number of dimensions") >>
              ELSE << >>)
             \o (IF Cardinality(container_dims) > 1
                 THEN << Plain("All containers must have the same number of dimensions") >>
                 ELSE << >>)
             \o (IF package_dims # {} /\ container_dims # {}
                    /\ package_dims # container_dims
                 THEN << Plain("Packages and containers must have the same number of dimensions") >>
                 ELSE << >>)
        ELSE << >>

\* validate_packing_problem
ValidatePackingProblem(prob) ==
    (IF prob.packages = << >>
     THEN << Plain("At least one package must be provided") >>
     ELSE PackageErrorsFrom(prob.packages, 1))
    \o (IF prob.containers = << >>
        THEN << Plain("At least one container must be provided") >>
        ELSE ContainerErrorsFrom(prob.containers, 1))
    \o DimensionErrors(prob)
    \o (IF ~IsNone(prob.allowed_rotations)
           /\ Len(TheValue(prob.allowed_rotations)) # Len(prob.packages)
        THEN << Plain("Rotation permissions must be provided for all packages") >>
        ELSE << >>)

\* the population size below which validate_optimization_parameters objects
MinPopulationSize == 10

ValidateOptimizationParameters_NoMinimum(population_size, generations, crossover_prob, mutation_prob) ==
    (IF population_size <= 0
     THEN << Plain("Population size must be positive") >> ELSE << >>)
    \o (IF generations <= 0
        THEN << Plain("Number of generations must be positive") >> ELSE << >>)
    \o (IF ~(FracLeq(FracZero, crossover_prob) /\ FracLeq(crossover_prob, FracOne))
        THEN << Plain("Crossover probability must be between 0.0 and 1.0") >> ELSE << >>)
    \o (IF ~(FracLeq(FracZero, mutation_prob) /\ FracLeq(mutation_prob, FracOne))
        THEN << Plain("Mutation probability must be between 0.0 and 1.0") >> ELSE << >>)

\* validate_optimization_parameters
ValidateOptimizationParameters(population_size, generations, crossover_prob, mutation_prob) ==
    (IF population_size <= 0
     THEN << Plain("Population size must be positive") >> ELSE << >>)
    \o (IF population_size < MinPopulationSize
        THEN << Plain("Population size should be at least 10 for meaningful results") >>
        ELSE << >>)
    \o (IF generations <= 0
        THEN << Plain("Number of generations must be positive") >> ELSE << >>)
    \o (IF ~(FracLeq(FracZero, crossover_prob) /\ FracLeq(crossover_prob, FracOne))
        THEN << Plain("Crossover probability must be between 0.0 and 1.0") >> ELSE << >>)
    \o (IF ~(FracLeq(FracZero, mutation_prob) /\ FracLeq(mutation_prob, FracOne))
        THEN << Plain("Mutation probability must be between 0.0 and 1.0") >> ELSE << >>)

\* OptimizationService._validate_inputs: the exception raised, or None
ValidateInputs(prob, population_size, generations, crossover_prob, mutation_prob) ==
    LET problem_errors == ValidatePackingProblem(prob)
        param_errors == ValidateOptimizationParameters(population_size, generations,
                                                       crossover_prob, mutation_prob)
    IN  IF problem_errors # << >>
        THEN Some(Exception("ValueError", "Invalid packing problem", problem_errors))
        ELSE IF param_errors # << >>
        THEN Some(Exception("ValueError", "Invalid optimization parameters", param_errors))
        ELSE None

AlgorithmMap_Misfiled ==
    [ d \in {1, 2, 3} |-> << "Optimizer1D", "Optimizer3D", "Optimizer3D" >>[d] ]

\* OptimizationService._algorithm_map
AlgorithmMap == [ d \in {1, 2, 3} |-> << "Optimizer1D", "Optimizer2D", "Optimizer3D" >>[d] ]

\* the modules that import time, which optimize() calls first
ImportsTime(optimizer_class) == optimizer_class \in {"Optimizer2D", "Optimizer3D"}

\* all lists of at most n elements of S
ListsUpTo(S, n) == UNION { [1..k -> S] : k \in 0..n }

\* the packages a caller builds: one per dimensionality, and one for each
\* check of Package.__post_init__
PackageChoices ==
    { Package(NameA, UnitBox(d), 0, 1) : d \in 1..3 }
    \cup { Package(NameB, UnitBox(2), 2, 1),
           Package(NameB, UnitBox(2), -1, 1),
           Package(NameB, << 1, 0 >>, 0, 1),
           Package(NameB, << 1, 1, 1, 1 >>, 0, 1) }

\* the containers a caller builds: one per dimensionality, and one for each
\* check of Container.__post_init__
ContainerChoices ==
    { Container("c1", UnitBox(d), FALSE) : d \in 1..3 }
    \cup { Container("c2", << 0 >>, FALSE), Container("c2", << 1, 1, 1, 1 >>, FALSE) }

\* the containers that exist: their construction has not raised
ConstructedContainers == { c \in ContainerChoices : IsNone(ContainerPostInit(c)) }

\* no permissions, an empty list, permissions for one package
RotationListChoices == { None, Some(<< >>), Some(<< AllPermitted(3) >>) }

PopulationSizeChoices == { 0, MinPopulationSize - 1, MinPopulationSize }

ProbabilityChoices == { Frac(n, 10) : n \in {-1, 0, 5, 10, 11} }

\* the number of offspring without a valid fitness after crossover and mutation:
\* the individuals of the mated pairs and the mutated ones among the others
InvalidCounts(population_size, crossover_prob, mutation_prob) ==
    LET pairs == population_size \div 2
        mated == IF FracLeq(crossover_prob, FracZero) THEN {0}
                 ELSE IF FracLeq(FracOne, crossover_prob) THEN {2 * pairs}
                 ELSE { 2 * j : j \in 0..pairs }
    IN  UNION { IF FracLeq(mutation_prob, FracZero) THEN {m}
                ELSE IF FracLeq(FracOne, mutation_prob) THEN {population_size}
                ELSE m..population_size : m \in mated }

\* the caller builds packages, containers and the problem: PackingProblem(...)
Construct ==
    /\ svc = "new"
    /\ \E packages \in ListsUpTo(PackageChoices, MaxItems),
          containers \in ListsUpTo(ContainerChoices, MaxItems),
          allowed_rotations \in RotationListChoices :
           LET e == ConstructError(packages, containers)
           IN  /\ supplied' = Some(PackingProblem(packages, containers, allowed_rotations))
               /\ IF IsNone(e)
                  THEN /\ packing_problem' =
                              Some(PackingProblem(packages, containers, allowed_rotations))
                       /\ svc' = "constructed"
                       /\ error' = None
                  ELSE /\ packing_problem' = None
                       /\ svc' = "rejected"
                       /\ error' = Some(ValueError(TheValue(e)))
    /\ UNCHANGED << params, optimizer, created, evaluated, generation, progress >>
    /\ UNCHANGED decoder_vars
    /\ UNCHANGED generator_vars
    /\ UNCHANGED ga_vars

\* problem.containers = containers on the problem as constructed: the fields
\* of the dataclass are mutable and __post_init__ is not run again
AssignContainers ==
    /\ svc = "constructed"
    /\ packing_problem = supplied
    /\ \E containers \in ListsUpTo(ConstructedContainers, MaxItems) :
           /\ containers # TheValue(packing_problem).containers
           /\ packing_problem' = Some([ TheValue(packing_problem) EXCEPT
                                          !.containers = containers ])
    /\ UNCHANGED << svc, supplied, params, error, optimizer, created, evaluated,
                    generation, progress >>
    /\ UNCHANGED decoder_vars
    /\ UNCHANGED generator_vars
    /\ UNCHANGED ga_vars

\* problem.packages.clear() on the problem as constructed: the case
\* dimensions_count answers with 0
ClearPackages ==
    /\ svc = "constructed"
    /\ packing_problem = supplied
    /\ packing_problem' = Some([ TheValue(packing_problem) EXCEPT !.packages = << >> ])
    /\ UNCHANGED << svc, supplied, params, error, optimizer, created, evaluated,
                    generation, progress >>
    /\ UNCHANGED decoder_vars
    /\ UNCHANGED generator_vars
    /\ UNCHANGED ga_vars

\* optimize_packing is called: _validate_inputs
OptimizePacking ==
    /\ svc = "constructed"
    /\ \E population_size \in PopulationSizeChoices, generations \in 0..MaxGenerations,
          crossover_probability \in ProbabilityChoices,
          mutation_probability \in ProbabilityChoices,
          progress_callback \in BOOLEAN :
           LET e == ValidateInputs(TheValue(packing_problem), population_size, generations,
                                   crossover_probability, mutation_probability)
           IN  /\ params' = Some([ population_size |-> population_size,
                                   generations |-> generations,
                                   crossover_probability |-> crossover_probability,
                                   mutation_probability |-> mutation_probability,
                                   progress_callback |-> progress_callback ])
               /\ error' = e
               /\ svc' = IF IsNone(e) THEN "validated" ELSE "raised"
    /\ UNCHANGED << supplied, packing_problem, optimizer, created, evaluated,
                    generation, progress >>
    /\ UNCHANGED decoder_vars
    /\ UNCHANGED generator_vars
    /\ UNCHANGED ga_vars

\* optimize_packing: the algorithm is selected and the optimizer created
CreateOptimizer ==
    /\ svc = "validated"
    /\ LET dimensions == DimensionsCount(TheValue(packing_problem))
       IN  IF dimensions \notin DOMAIN AlgorithmMap
           THEN /\ error' = Some(ValueError("Unsupported problem dimensions"))
                /\ svc' = "raised"
                /\ UNCHANGED optimizer
           ELSE /\ optimizer' = Some([ class |-> AlgorithmMap[dimensions],
                                       problem |-> TheValue(packing_problem),
                                       population_size |-> TheValue(params).population_size,
                                       generations |-> TheValue(params).generations,
                                       progress_callback |->
                                           TheValue(params).progress_callback ])
                /\ svc' = "instantiated"
                /\ UNCHANGED error
    /\ UNCHANGED << supplied, packing_problem, params, created, evaluated,
                    generation, progress >>
    /\ UNCHANGED decoder_vars
    /\ UNCHANGED generator_vars
    /\ UNCHANGED ga_vars

\* optimizer.optimize(): start_time = time.time(), then the initial population
\* is created and evaluated.  optimizer_1d does not import time.
StartOptimize ==
    /\ svc = "instantiated"
    /\ IF ImportsTime(TheValue(optimizer).class)
       THEN /\ created' = TheValue(optimizer).population_size
            /\ evaluated' = TheValue(optimizer).population_size
            /\ svc' = "running"
            /\ UNCHANGED error
       ELSE /\ error' = Some(Exception("NameError", "name 'time' is not defined", << >>))
            /\ svc' = "raised"
            /\ UNCHANGED << created, evaluated >>
    /\ UNCHANGED << supplied, packing_problem, params, optimizer, generation, progress >>
    /\ UNCHANGED decoder_vars
    /\ UNCHANGED generator_vars
    /\ UNCHANGED ga_vars

\* one iteration of the generation loop: the offspring without a valid fitness
\* are evaluated and _report_progress(generation, ...) is called
Generation ==
    /\ svc = "running"
    /\ generation < TheValue(optimizer).generations
    /\ \E invalid \in InvalidCounts(TheValue(optimizer).population_size,
                                    TheValue(params).crossover_probability,
                                    TheValue(params).mutation_probability) :
           evaluated' = evaluated + invalid
    /\ progress' = IF TheValue(optimizer).progress_callback
                   THEN Append(progress, generation)
                   ELSE progress
    /\ generation' = generation + 1
    /\ UNCHANGED << svc, supplied, packing_problem, params, error, optimizer, created >>
    /\ UNCHANGED decoder_vars
    /\ UNCHANGED generator_vars
    /\ UNCHANGED ga_vars

\* the loop has ended: the best individual is decoded and the result returned
ReturnResult ==
    /\ svc = "running"
    /\ generation = TheValue(optimizer).generations
    /\ svc' = "returned"
    /\ UNCHANGED << supplied, packing_problem, params, error, optimizer, created,
                    evaluated, generation, progress >>
    /\ UNCHANGED decoder_vars
    /\ UNCHANGED generator_vars
    /\ UNCHANGED ga_vars

InitService == DecoderInit({ScenarioA}) /\ ServiceInit /\ GeneratorInit /\ NoEngine

NextService ==
    \/ Construct
    \/ AssignContainers
    \/ ClearPackages
    \/ OptimizePacking
    \/ CreateOptimizer
    \/ StartOptimize
    \/ Generation
    \/ ReturnResult

SpecService == InitService /\ [][NextService]_vars

-----------------------------------------------------------------------------
(* Properties of the service *)

\* the packages and containers of prob do not all have one dimensionality
MixedDimensions(prob) == Cardinality(DimsOf(prob.packages) \cup DimsOf(prob.containers)) > 1

\* nothing of a run has happened
NothingRan ==
    /\ optimizer = None
    /\ created = 0
    /\ evaluated = 0
    /\ generation = 0
    /\ progress = << >>

\* C10: a problem of mixed dimensionalities is rejected with an invalid-problem
\* error before any generation runs.  Handed to PackingProblem(...) it is
\* never constructed; made mixed after its construction, optimize_packing
\* raises "Invalid packing problem".  In both cases no optimizer is
\* created, no genome is created or evaluated and the progress callback is
\* never invoked.
C10_MixedRejected ==
    /\ (~IsNone(supplied) /\ MixedDimensions(TheValue(supplied))) =>
           /\ svc = "rejected"
           /\ packing_problem = None
           /\ TheValue(error).type = "ValueError"
           /\ NothingRan
    /\ (~IsNone(packing_problem) /\ MixedDimensions(TheValue(packing_problem))) =>
           /\ svc \in {"constructed", "raised"}
           /\ svc = "raised" =>
                  /\ TheValue(error).type = "ValueError"
                  /\ TheValue(error).message = "Invalid packing problem"
           /\ NothingRan

\* optimize_packing, called with valid parameters and a callback for 2D
\* packages and a 3D container, has raised
C10_Witness ==
    /\ svc = "raised"
    /\ ~IsNone(packing_problem)
    /\ DimsOf(TheValue(packing_problem).packages) = {2}
    /\ DimsOf(TheValue(packing_problem).containers) = {3}
    /\ ValidateOptimizationParameters(TheValue(params).population_size,
                                      TheValue(params).generations,
                                      TheValue(params).crossover_probability,
                                      TheValue(params).mutation_probability) = << >>
    /\ TheValue(params).progress_callback

\* the conditions under which construction is said to fail
ClaimedInvalid(prob) ==
    \/ prob.packages = << >>
    \/ prob.containers = << >>
    \/ \E i \in 1..Len(prob.packages) :
           LET package == prob.packages[i]
           IN  \/ Len(package.dimensions) \notin {1, 2, 3}
               \/ \E a \in 1..Len(package.dimensions) : package.dimensions[a] <= 0
               \/ package.min_quantity < 0
               \/ package.max_quantity < package.min_quantity
    \/ \E i \in 1..Len(prob.containers) :
           LET container == prob.containers[i]
           IN  \/ Len(container.dimensions) \notin {1, 2, 3}
               \/ \E a \in 1..Len(container.dimensions) : container.dimensions[a] <= 0
    \/ MixedDimensions(prob)
    \/ /\ ~IsNone(prob.allowed_rotations)
       /\ Len(TheValue(prob.allowed_rotations)) # Len(prob.packages)

\* C11: constructing a PackingProblem fails, without side effects, exactly
\* when a list is empty, a dimension count is not 1, 2 or 3, a dimension is
\* not positive, a quantity range is negative or empty, dimensionalities are
\* mixed, or a rotation-permission list has not one entry per package.
C11_ConstructionValidation ==
    ~IsNone(supplied) =>
        IF ClaimedInvalid(TheValue(supplied))
        THEN /\ svc = "rejected"
             /\ packing_problem = None
             /\ TheValue(error).type = "ValueError"
             /\ NothingRan
        ELSE /\ svc # "rejected"
             /\ ~IsNone(packing_problem)

\* the parameters the validation is said to refuse
BadParameters(p) ==
    \/ p.population_size < 10
    \/ p.generations <= 0
    \/ ~(FracLeq(FracZero, p.crossover_probability) /\ FracLeq(p.crossover_probability, FracOne))
    \/ ~(FracLeq(FracZero, p.mutation_probability) /\ FracLeq(p.mutation_probability, FracOne))

InvalidParametersRaised ==
    /\ svc = "raised"
    /\ TheValue(error).type = "ValueError"
    /\ TheValue(error).message = "Invalid optimization parameters"

EngineOf(dimensions) == << "Optimizer1D", "Optimizer2D", "Optimizer3D" >>[dimensions]

\* after validation has succeeded the one optimizer created is the engine of
\* the problem's dimension count
DispatchedByDimensions ==
    /\ svc \in {"validated", "instantiated", "running", "returned"} =>
           DimensionsCount(TheValue(packing_problem)) \in {1, 2, 3}
    /\ svc \in {"instantiated", "running", "returned"} => ~IsNone(optimizer)
    /\ ~IsNone(optimizer) =>
           /\ DimensionsCount(TheValue(packing_problem)) \in {1, 2, 3}
           /\ TheValue(optimizer).class = EngineOf(DimensionsCount(TheValue(packing_problem)))
           /\ TheValue(optimizer).problem = TheValue(packing_problem)

\* optimize_packing has been called for a problem whose dimension count is
\* not 1, 2 or 3
CalledWithUnsupportedDimensions ==
    /\ ~IsNone(params)
    /\ DimensionsCount(TheValue(packing_problem)) \notin {1, 2, 3}

-----------------------------------------------------------------------------
(* The rotation generator called on its own *)

\* the permission tuples: every tuple of at most 3 flags
PermissionTuples == UNION { [1..k -> BOOLEAN] : k \in 0..3 }

\* no permission matrix, or a matrix of at most MaxPermissions tuples
PermissionMatrices == { None } \cup { Some(m) : m \in ListsUpTo(PermissionTuples, MaxPermissions) }

\* the problems of one package and one container of d dimensions
RotationProblems(d) ==
    { PackingProblem(<< Package(NameA, a, 0, 1) >>,
                     << Container("c1", Cube(d, MaxContLen), FALSE) >>, rot) :
          a \in Boxes(d, MaxPkgLen), rot \in PermissionMatrices }

\* self._generate_rotations(package, package_index) for a package of the
\* problem and any index
CallGenerateRotations ==
    /\ IsNone(generated)
    /\ \E i \in 1..NP, package_index \in 0..MaxPermissions :
           generated' = Some([ package |-> problem.packages[i],
                               package_index |-> package_index,
                               rotations |-> GenerateRotations(problem, problem.packages[i],
                                                               package_index) ])
    /\ UNCHANGED decoder_vars
    /\ UNCHANGED service_vars
    /\ UNCHANGED ga_vars

InitRotations ==
    /\ DecoderInit(UNION { RotationProblems(d) : d \in 1..3 })
    /\ ServiceInit
    /\ GeneratorInit
    /\ NoEngine

NextRotations == CallGenerateRotations

SpecRotations == InitRotations /\ [][NextRotations]_vars

-----------------------------------------------------------------------------
(* Properties of the rotation generator *)

\* C14: whatever the permissions (none, a matrix too short for the index, a
\* tuple of the wrong length), _generate_rotations returns at least one
\* orientation and the first is the original: the package's name followed by
\* its dimensions.
C14_OriginalFirst ==
    ~IsNone(generated) =>
        LET g == TheValue(generated)
        IN  /\ Len(g.rotations) >= 1
            /\ g.rotations[1] = << g.package.name >> \o g.package.dimensions

\* a 3D package of unequal edges whose permission tuple has 2 flags, both set
C14_Witness ==
    /\ ~IsNone(generated)
    /\ ~IsNone(problem.allowed_rotations)
    /\ LET g == TheValue(generated)
           matrix == TheValue(problem.allowed_rotations)
       IN  /\ Len(g.package.dimensions) = 3
           /\ g.package.dimensions[1] # g.package.dimensions[2]
           /\ g.package_index < Len(matrix)
           /\ matrix[g.package_index + 1] = << TRUE, TRUE >>
           /\ Len(g.rotations) = 1

\* the k-th permission of the package at package_index is set: the matrix has
\* a tuple for the index, the tuple has the flags of the dimensionality (1 in
\* 2D, 3 in 3D) and flag k is true
PermissionSet(prob, dimensions, package_index, k) ==
    /\ ~IsNone(prob.allowed_rotations)
    /\ package_index < Len(TheValue(prob.allowed_rotations))
    /\ LET permissions == TheValue(prob.allowed_rotations)[package_index + 1]
       IN  /\ Len(permissions) >= (IF Len(dimensions) = 3 THEN 3 ELSE 1)
           /\ permissions[k]

\* dims with the lengths of axes a and b exchanged
Swapped(dims, a, b) ==
    [ i \in 1..Len(dims) |-> IF i = a THEN dims[b] ELSE IF i = b THEN dims[a] ELSE dims[i] ]

\* the axis pairs of a dimensionality in the order of their permissions
AxisPairs(d) ==
    IF d = 2 THEN << << 1, 2 >> >>
    ELSE IF d = 3 THEN << << 1, 2 >>, << 1, 3 >>, << 2, 3 >> >>
    ELSE << >>

\* the orientations due after the original, from the k-th axis pair on
RECURSIVE DueFrom(_, _, _, _)
DueFrom(prob, dims, package_index, k) ==
    IF k > Len(AxisPairs(Len(dims))) THEN << >>
    ELSE LET pair == AxisPairs(Len(dims))[k]
         IN  (IF PermissionSet(prob, dims, package_index, k) /\ dims[pair[1]] # dims[pair[2]]
              THEN << Swapped(dims, pair[1], pair[2]) >>
              ELSE << >>)
             \o DueFrom(prob, dims, package_index, k + 1)

\* b holds the lengths of a in some order
IsPermutation(a, b) ==
    /\ Len(a) = Len(b)
    /\ \E f \in [1..Len(a) -> 1..Len(a)] :
           /\ \A i, j \in 1..Len(a) : f[i] = f[j] => i = j
           /\ \A i \in 1..Len(a) : b[i] = a[f[i]]

\* C15: after the original orientation _generate_rotations returns exactly,
\* in 2D the swapped orientation if and only if the permission flag is set and
\* width # height, and in 3D, in the order XY, XZ, YZ, the orientation with
\* that axis pair swapped if and only if its permission is set and the two
\* lengths differ; nothing in 1D.  Every orientation returned is a permutation
\* of the package's dimensions.
C15_RotationConditions ==
    ~IsNone(generated) =>
        LET g == TheValue(generated)
            dims == g.package.dimensions
        IN  /\ [ r \in 1..(Len(g.rotations) - 1) |-> Tail(g.rotations[r + 1]) ]
                   = DueFrom(problem, dims, g.package_index, 1)
            /\ \A r \in 1..Len(g.rotations) : IsPermutation(dims, Tail(g.rotations[r]))

\* a 3D package with two equal edges and all three permissions: XY and YZ are
\* added, XZ is not
C15_Witness ==
    /\ ~IsNone(generated)
    /\ LET g == TheValue(generated)
       IN  /\ g.package.dimensions = << 1, 2, 1 >>
           /\ PermissionSet(problem, g.package.dimensions, g.package_index, 1)
           /\ PermissionSet(problem, g.package.dimensions, g.package_index, 2)
           /\ PermissionSet(problem, g.package.dimensions, g.package_index, 3)
           /\ Len(g.rotations) = 3

-----------------------------------------------------------------------------
(* Genome layout *)

\* 0-based index of the gene of package j (0-based) in the block of container c
\* (0-based), made 1-based for a sequence
QuantityGene(c, j) == individual[c * (1 + NP) + 1 + j + 1]

\* C16: a genome has C*(1+P) genes, per container one usage gene (1 when the
\* container is mandatory, 0 or 1 when optional) followed by P quantity genes
\* within [min_quantity, max_quantity], and decoding reads the quantity of
\* package j in container c at 0-based index c*(1+P)+1+j, also after containers
\* that were skipped.
C16_GenomeLayout ==
    pc # "idle" =>
        /\ Len(individual) = NC * (1 + NP)
        /\ \A c \in 0..(NC - 1) :
              /\ individual[c * (1 + NP) + 1] \in
                    (IF problem.containers[c + 1].is_optional THEN {0, 1} ELSE {1})
              /\ \A j \in 0..(NP - 1) :
                    /\ QuantityGene(c, j) >= problem.packages[j + 1].min_quantity
                    /\ QuantityGene(c, j) <= problem.packages[j + 1].max_quantity
        /\ pc = "container" => idx = (ci - 1) * (1 + NP)
        /\ pc = "place" =>
              /\ individual[(ci - 1) * (1 + NP) + 1] # 0
              /\ \A j \in 0..(NP - 1) : package_quantities[j + 1] = QuantityGene(ci - 1, j)

\* a second container is being filled after the first one was skipped, and the
\* two blocks ask for different quantities
C16_Witness ==
    /\ pc = "place"
    /\ ci = 2
    /\ individual[1] = 0
    /\ Len(unused_containers) = 1
    /\ QuantityGene(0, 0) # QuantityGene(1, 0)
    /\ package_quantities[1] = QuantityGene(1, 0)

-----------------------------------------------------------------------------
(* Shape of a run *)

\* C17: for a valid problem and valid parameters, optimize() builds and
\* evaluates population_size genomes, runs exactly `generations` generations
\* and returns: once an optimizer has been created the call never ends in an
\* error, the initial population is complete while the loop runs, and the
\* result is returned after `generations` generations.
C17_RunShape ==
    ~IsNone(optimizer) =>
        /\ svc # "raised"
        /\ svc \in {"running", "returned"} =>
              /\ created = TheValue(optimizer).population_size
              /\ evaluated >= TheValue(optimizer).population_size
              /\ generation <= TheValue(optimizer).generations
        /\ svc = "returned" => generation = TheValue(optimizer).generations

-----------------------------------------------------------------------------
(* Optimizer{1D,2D,3D}._decode_solution and _evaluate_fitness as functions of a
   genome, for the genetic algorithm that calls them on every individual *)

FracMul(p, q) == Frac(p.num * q.num, p.den * q.den)
FracSub(p, q) == Frac(p.num * q.den - q.num * p.den, p.den * q.den)
FracLess(p, q) == p.num * q.den < q.num * p.den

\* `container_width, container_height = container.dimensions` (and the 3D
\* form) raises ValueError unless the tuple has that many values; the 1D
\* engine reads container.dimensions[0] and unpacks nothing
UnpackRaises(class, container) ==
    \/ class = "Optimizer2D" /\ Len(container.dimensions) # 2
    \/ class = "Optimizer3D" /\ Len(container.dimensions) # 3

\* the rotation loop of the engine for one unit
TryRotations(class, prob, package, container, d) ==
    IF class = "Optimizer1D"
    THEN TryRotations1D(RotationsOf(prob, package), 1, d.current_position, container)
    ELSE IF class = "Optimizer2D"
    THEN TryRotations2D(RotationsOf(prob, package), 1, package, d.placed_packages, container)
    ELSE TryRotations3D(RotationsOf(prob, package), 1, package, d.placed_packages, container)

\* `for _ in range(quantity):` with `quantity` passes left; AfterUnit is the end
\* of a pass with the outcome of its rotation loop: the unit is recorded and
\* the loop goes on, or the loop is left (`break`)
RECURSIVE UnitLoop(_, _, _, _, _, _), AfterUnit(_, _, _, _, _, _, _)
UnitLoop(class, prob, package, container, quantity, d) ==
    IF quantity <= 0 THEN d
    ELSE AfterUnit(class, prob, package, container, quantity, d,
                   TryRotations(class, prob, package, container, d))

AfterUnit(class, prob, package, container, quantity, d, attempt) ==
    IF attempt.placed
    THEN UnitLoop(class, prob, package, container, quantity - 1,
                  [ placed_packages |-> Append(d.placed_packages, attempt.package),
                    current_position |->
                        IF class = "Optimizer1D"
                        THEN d.current_position + attempt.package.dimensions[1]
                        ELSE d.current_position,
                    unplaced_packages |-> CountPlaced(d.unplaced_packages, package.name) ])
    ELSE d

\* `for package, quantity in zip(self.problem.packages, package_quantities):`
\* from the j-th package on
RECURSIVE PackageLoop(_, _, _, _, _, _)
PackageLoop(class, prob, container, quantities, j, d) ==
    IF j > Len(prob.packages) THEN d
    ELSE PackageLoop(class, prob, container, quantities, j + 1,
                     UnitLoop(class, prob, prob.packages[j], container,
                              quantities[j], d))

\* the end of the body of the container loop: `if placed_packages:` a
\* ContainerSolution is appended, else the container is unused
ContainerDone(lists, container, d) ==
    IF IsUsed(d.placed_packages)
    THEN [lists EXCEPT
            !.container_solutions =
                Append(@, ContainerSolution(container, d.placed_packages,
                                            Utilization(d.placed_packages, container))),
            !.unplaced_packages = d.unplaced_packages]
    ELSE [lists EXCEPT
            !.unused_containers = Append(@, container),
            !.unplaced_packages = d.unplaced_packages]

\* `for container in self.problem.containers:` from the c-th container on, with
\* the running index i into the genome; None once the body has raised
RECURSIVE ContainerLoop(_, _, _, _, _, _)
ContainerLoop(class, prob, genes, c, i, acc) ==
    IF c > Len(prob.containers) \/ IsNone(acc) THEN acc
    ELSE IF genes[i + 1] = 0
    THEN ContainerLoop(class, prob, genes, c + 1, i + 1 + Len(prob.packages),
                       Some([TheValue(acc) EXCEPT
                               !.unused_containers = Append(@, prob.containers[c])]))
    ELSE IF UnpackRaises(class, prob.containers[c]) THEN None
    ELSE ContainerLoop(class, prob, genes, c + 1, i + 1 + Len(prob.packages),
             Some(ContainerDone(TheValue(acc), prob.containers[c],
                      PackageLoop(class, prob, prob.containers[c],
                                  [j \in 1..Len(prob.packages) |-> genes[i + 1 + j]], 1,
                                  [ placed_packages |-> << >>,
                                    current_position |-> 0,
                                    unplaced_packages |-> TheValue(acc).unplaced_packages ]))))

\* the return statement of _decode_solution for the lists the loop has built
DecodeReturn(acc) ==
    IF IsNone(acc) THEN None
    ELSE Some(OptimizationResult(TheValue(acc).container_solutions,
                                 TotalEfficiency(TheValue(acc).container_solutions),
                                 TheValue(acc).unused_containers,
                                 TheValue(acc).unplaced_packages))

\* _decode_solution(individual): Some(OptimizationResult), or None when it raises
DecodeSolution(class, prob, genes) ==
    DecodeReturn(ContainerLoop(class, prob, genes, 1, 0,
                               Some([ container_solutions |-> << >>,
                                      unused_containers |-> << >>,
                                      unplaced_packages |-> InitialUnplaced(prob) ])))

\* a count of every container of the problem, used or not
ContainersUsed_All(res) ==
    Len(res.container_solutions) + Len(res.unused_containers)

\* OptimizationResult.containers_used
ContainersUsed(res) == Len(res.container_solutions)

\* _evaluate_fitness after the decode: the formula, or 0.0 for an exception
FitnessOf(prob, decoded) ==
    IF IsNone(decoded) THEN FracZero
    ELSE LET efficiency == TheValue(decoded).total_efficiency
             containers_used == ContainersUsed(TheValue(decoded))
             total_containers == Len(prob.containers)
         IN  IF total_containers = 0 THEN FracZero
             ELSE LET container_penalty ==
                          FracSub(FracOne, FracMul(Frac(containers_used, total_containers),
                                                   Frac(1, 10)))
                  IN  FracMul(efficiency, container_penalty)

\* _evaluate_fitness(individual)[0]
EvaluateFitness(class, prob, genes) == FitnessOf(prob, DecodeSolution(class, prob, genes))

-----------------------------------------------------------------------------
(* The genetic algorithm, Optimizer{1D,2D,3D}.optimize, on an optimizer that
   is instantiated directly; one step of the generation loop per action *)

\* a creator.Individual: a list of genes with fitness.values (None: not valid)
Individual(genes, fitness) == [genes |-> genes, fitness |-> fitness]

\* the outcomes of `random.random() < probability`, random() being in [0, 1)
Draws(probability) ==
    IF FracLeq(probability, FracZero) THEN {FALSE}
    ELSE IF FracLeq(FracOne, probability) THEN {TRUE}
    ELSE BOOLEAN

\* max(aspirants, key=attrgetter("fitness")): the first aspirant of maximal fitness
Winner(pop, aspirants) ==
    LET j == CHOOSE j \in 1..Len(aspirants) :
                 /\ \A l \in 1..Len(aspirants) :
                        FracLeq(TheValue(pop[aspirants[l]].fitness),
                                TheValue(pop[aspirants[j]].fitness))
                 /\ \A l \in 1..(j - 1) :
                        FracLess(TheValue(pop[aspirants[l]].fitness),
                                 TheValue(pop[aspirants[j]].fitness))
    IN  aspirants[j]

\* tools.selTournament(individuals, k, tournsize=3): what one tournament, three
\* aspirants drawn with replacement, can select
TournamentWinners(pop) ==
    { Winner(pop, aspirants) : aspirants \in [1..3 -> 1..Len(pop)] }

\* a crossover that copies the drawn genes of the second parent into the first
\* and leaves the second as it is
CxUniform_OneWay(genes1, genes2, swap) ==
    << [i \in 1..Len(genes1) |-> IF i <= Len(genes2) /\ swap[i] THEN genes2[i] ELSE genes1[i]],
       genes2 >>

\* tools.cxUniform(ind1, ind2, indpb) on the genes, `swap` the outcome of the
\* draw of each index
CxUniform(genes1, genes2, swap) ==
    << [i \in 1..Len(genes1) |-> IF i <= Len(genes2) /\ swap[i] THEN genes2[i] ELSE genes1[i]],
       [i \in 1..Len(genes2) |-> IF i <= Len(genes1) /\ swap[i] THEN genes1[i] ELSE genes2[i]] >>

\* a mutation that flips the usage gene of any container, optional or not
RECURSIVE MutateWalk_FlipAny(_, _, _, _, _)
MutateWalk_FlipAny(prob, genes, at, c, gene_idx) ==
    IF c > Len(prob.containers) THEN { genes }
    ELSE IF gene_idx = at
    THEN { [genes EXCEPT ![at + 1] = 1 - @] }
    ELSE LET hit == { j \in 1..Len(prob.packages) : gene_idx + j = at }
         IN  IF hit # {}
             THEN LET package == prob.packages[CHOOSE j \in hit : TRUE]
                  IN  { [genes EXCEPT ![at + 1] = quantity] :
                            quantity \in (package.min_quantity)..(package.max_quantity) }
             ELSE MutateWalk_FlipAny(prob, genes, at, c + 1, gene_idx + 1 + Len(prob.packages))

\* _mutate_individual, the container loop from the c-th container on with the
\* running gene_idx, for the drawn index idx (0-based): the genomes it can leave
RECURSIVE MutateWalk(_, _, _, _, _)
MutateWalk(prob, genes, at, c, gene_idx) ==
    IF c > Len(prob.containers) THEN { genes }
    ELSE IF gene_idx = at /\ prob.containers[c].is_optional
    THEN { [genes EXCEPT ![at + 1] = 1 - @] }
    ELSE LET hit == { j \in 1..Len(prob.packages) : gene_idx + j = at }
         IN  IF hit # {}
             THEN LET package == prob.packages[CHOOSE j \in hit : TRUE]
                  IN  { [genes EXCEPT ![at + 1] = quantity] :
                            quantity \in (package.min_quantity)..(package.max_quantity) }
             ELSE MutateWalk(prob, genes, at, c + 1, gene_idx + 1 + Len(prob.packages))

\* _mutate_individual(individual): the calls there can be, each with the index
\* idx it drew (None when `random.random() < 0.1` failed) and the genes it left
MutateCalls(prob, genes) ==
    { [idx |-> None, genes |-> genes] }
    \cup UNION { { [idx |-> Some(at), genes |-> left] : left \in MutateWalk(prob, genes, at, 1, 0) } :
                     at \in 0..(Len(genes) - 1) }

\* _mutate_individual(individual): the genomes it can leave in the individual
MutateIndividual(prob, genes) == { call.genes : call \in MutateCalls(prob, genes) }

\* a selection of the individual the population ends with
SelBest_Last(pop) == pop[Len(pop)]

\* tools.selBest(population, 1)[0]: sorted() is stable, so the first individual
\* of maximal fitness
SelBest(pop) ==
    pop[CHOOSE k \in 1..Len(pop) :
            /\ \A l \in 1..Len(pop) : FracLeq(TheValue(pop[l].fitness), TheValue(pop[k].fitness))
            /\ \A l \in 1..(k - 1) : FracLess(TheValue(pop[l].fitness), TheValue(pop[k].fitness))]

\* fits = [ind.fitness.values[0] for ind in population]
Fits(pop) == [k \in 1..Len(pop) |-> TheValue(pop[k].fitness)]

\* max(fits)
BestFitness(pop) ==
    LET fits == Fits(pop)
    IN  fits[CHOOSE k \in 1..Len(fits) : \A l \in 1..Len(fits) : FracLeq(fits[l], fits[k])]

\* sum(fits) / len(fits)
AvgFitness(pop) == FracDivInt(FracSumSeq(Fits(pop)), Len(pop))

\* _report_progress: the OptimizationProgress handed to the callback
OptimizationProgress(generation_index, generations, best_fitness, avg_fitness, elapsed) ==
    [ current_generation |-> generation_index,
      total_generations |-> generations,
      best_fitness |-> best_fitness,
      average_fitness |-> avg_fitness,
      elapsed_time |-> elapsed,
      estimated_time_remaining |->
          IF generation_index > 0
          THEN LET time_per_generation == Frac(elapsed, generation_index)
                   remaining_generations == generations - generation_index
               IN  Some(FracMul(time_per_generation, Frac(remaining_generations, 1)))
          ELSE None ]

\* what optimize() ends with: an exception that leaves it, or the result
Raises(exception) ==
    [ raised |-> TRUE, exception |-> Some(exception), result |-> None,
      generations_completed |-> 0, best_fitness |-> FracZero ]
Returns(res, generations, best_fitness) ==
    [ raised |-> FALSE, exception |-> None, result |-> Some(res),
      generations_completed |-> generations, best_fitness |-> best_fitness ]

\* the classes of src/core/algorithms
OptimizerClasses == { "Optimizer1D", "Optimizer2D", "Optimizer3D" }

\* a unit box A (0 or 1 of it), a mandatory container it fills and an optional
\* container twice as long
SearchProblem(d) ==
    PackingProblem(<< Package(NameA, UnitBox(d), 0, 1) >>,
                   << Container("c1", UnitBox(d), FALSE),
                      Container("c2", Rod(d), TRUE) >>,
                   None)

\* the defaults of the constructor, crossover_probability = 0.618 and
\* mutation_probability = 0.021
DefaultCrossoverProbability == Frac(618, 1000)
DefaultMutationProbability == Frac(21, 1000)

\* OptimizerND(problem, population_size, generations): the instances the
\* search is run on, with the default probabilities
Optimizers ==
    { [ class |-> class, problem |-> SearchProblem(d),
        population_size |-> population_size, generations |-> generations,
        crossover_probability |-> crossover_probability,
        mutation_probability |-> mutation_probability,
        progress_callback |-> FALSE ] :
        class \in OptimizerClasses, d \in 2..3,
        population_size \in 1..MaxPopulation, generations \in 0..MaxGenerations,
        crossover_probability \in { DefaultCrossoverProbability },
        mutation_probability \in { DefaultMutationProbability } }

Self == TheValue(engine)

\* optimizer.set_progress_callback(callback)
SetProgressCallback ==
    /\ step = "instantiated"
    /\ ~Self.progress_callback
    /\ engine' = Some([Self EXCEPT !.progress_callback = TRUE])
    /\ UNCHANGED << step, population, offspring, gen, elapsed_time, reported, returned >>
    /\ UNCHANGED << drawn, refs >>
    /\ UNCHANGED << decoder_vars, service_vars, generator_vars >>

\* optimize(): start_time = time.time(), then the initial population is created
\* and evaluated.  optimizer_1d does not import time.
CreatePopulation ==
    /\ step = "instantiated"
    /\ IF ImportsTime(Self.class)
       THEN /\ \E genomes \in [1..Self.population_size -> Genomes(Self.problem)] :
                  population' =
                      [k \in 1..Self.population_size |->
                          Individual(genomes[k],
                                     Some(EvaluateFitness(Self.class, Self.problem, genomes[k])))]
            /\ step' = "loop"
            /\ UNCHANGED returned
       ELSE /\ returned' = Some(Raises(Exception("NameError", "name 'time' is not defined", << >>)))
            /\ step' = "raised"
            /\ UNCHANGED population
    /\ UNCHANGED << engine, offspring, gen, elapsed_time, reported >>
    /\ UNCHANGED << drawn, refs >>
    /\ UNCHANGED << decoder_vars, service_vars, generator_vars >>

\* offspring = self.toolbox.select(population, len(population)): the list holds
\* the selected individuals themselves
Select ==
    /\ step = "loop"
    /\ gen < Self.generations
    /\ \E chosen \in [1..Len(population) -> TournamentWinners(population)] :
           /\ offspring' = [k \in 1..Len(population) |-> population[chosen[k]]]
           /\ refs' = [k \in 1..Len(population) |-> [individual |-> chosen[k], copy |-> FALSE]]
    /\ step' = "selected"
    /\ UNCHANGED << engine, population, gen, elapsed_time, reported, returned >>
    /\ UNCHANGED drawn
    /\ UNCHANGED << decoder_vars, service_vars, generator_vars >>

\* a new list of the selected individuals themselves
Clone_Shallow ==
    /\ step = "selected"
    /\ offspring' = [k \in 1..Len(offspring) |-> offspring[k]]
    /\ UNCHANGED refs
    /\ step' = "cloned"
    /\ UNCHANGED << engine, population, gen, elapsed_time, reported, returned >>
    /\ UNCHANGED drawn
    /\ UNCHANGED << decoder_vars, service_vars, generator_vars >>

\* offspring = list(map(self.toolbox.clone, offspring)): deep copies
Clone ==
    /\ step = "selected"
    /\ offspring' = [k \in 1..Len(offspring) |->
                        Individual(offspring[k].genes, offspring[k].fitness)]
    /\ refs' = [k \in 1..Len(offspring) |-> [refs[k] EXCEPT !.copy = TRUE]]
    /\ step' = "cloned"
    /\ UNCHANGED << engine, population, gen, elapsed_time, reported, returned >>
    /\ UNCHANGED drawn
    /\ UNCHANGED << decoder_vars, service_vars, generator_vars >>

\* the two lists of optimize() during the loops that work on the offspring
Lists(pop, off) == [population |-> pop, offspring |-> off]

\* the individual the k-th entry of the offspring list is
Referent(lists, k) ==
    IF refs[k].copy THEN lists.offspring[k]
    ELSE lists.population[refs[k].individual]

\* the lists after the individual that is the k-th entry of the offspring list
\* has been modified in place
Modified(lists, k, ind) ==
    IF refs[k].copy THEN [lists EXCEPT !.offspring[k] = ind]
    ELSE [lists EXCEPT !.population[refs[k].individual] = ind]

\* the individuals the offspring list holds
Held(lists) == [k \in 1..Len(lists.offspring) |-> Referent(lists, k)]

\* a crossover loop that leaves the fitness values of the children in place
RECURSIVE MateLoop_KeepFitness(_, _, _, _)
MateLoop_KeepFitness(lists, pair, mate, swap) ==
    IF pair > Len(lists.offspring) \div 2 THEN lists
    ELSE IF mate[pair]
    THEN LET child1 == Referent(lists, 2 * pair - 1)
             child2 == Referent(lists, 2 * pair)
             children == CxUniform(child1.genes, child2.genes, swap[pair])
         IN  MateLoop_KeepFitness(
                 Modified(Modified(lists, 2 * pair - 1, Individual(children[1], child1.fitness)),
                          2 * pair, Individual(children[2], child2.fitness)),
                 pair + 1, mate, swap)
    ELSE MateLoop_KeepFitness(lists, pair + 1, mate, swap)

\* for child1, child2 in zip(offspring[::2], offspring[1::2]): from the given
\* pair on, mate[pair] the outcome of the draw against crossover_probability;
\* mate(child1, child2) works in place and both fitness values are deleted
RECURSIVE MateLoop(_, _, _, _)
MateLoop(lists, pair, mate, swap) ==
    IF pair > Len(lists.offspring) \div 2 THEN lists
    ELSE IF mate[pair]
    THEN LET child1 == Referent(lists, 2 * pair - 1)
             child2 == Referent(lists, 2 * pair)
             children == CxUniform(child1.genes, child2.genes, swap[pair])
         IN  MateLoop(Modified(Modified(lists, 2 * pair - 1, Individual(children[1], None)),
                               2 * pair, Individual(children[2], None)),
                      pair + 1, mate, swap)
    ELSE MateLoop(lists, pair + 1, mate, swap)

\* the state the loops over the offspring leave
LoopDone(lists) ==
    /\ population' = lists.population
    /\ offspring' = Held(lists)

\* the crossover loop of optimize()
Crossover ==
    /\ step = "cloned"
    /\ LET pairs == Len(offspring) \div 2
           length == Len(offspring[1].genes)
       IN  \E mate \in [1..pairs -> Draws(Self.crossover_probability)],
              swap \in [1..pairs -> [1..length -> Draws(Self.crossover_probability)]] :
               LoopDone(MateLoop(Lists(population, offspring), 1, mate, swap))
    /\ step' = "crossed"
    /\ UNCHANGED << engine, gen, elapsed_time, reported, returned >>
    /\ UNCHANGED << drawn, refs >>
    /\ UNCHANGED << decoder_vars, service_vars, generator_vars >>

\* for mutant in offspring: from the k-th entry on, mutate with probability
\* mutation_probability, in place, and delete the fitness value; the lists the
\* loop can leave, each with what was drawn
RECURSIVE MutationLoop(_, _, _)
MutationLoop(lists, k, log) ==
    IF k > Len(lists.offspring) THEN { [lists |-> lists, drawn |-> log] }
    ELSE (IF FALSE \in Draws(Self.mutation_probability)
          THEN MutationLoop(lists, k + 1, Append(log, [applied |-> FALSE, idx |-> None]))
          ELSE {})
         \cup (IF TRUE \in Draws(Self.mutation_probability)
               THEN UNION { MutationLoop(Modified(lists, k, Individual(call.genes, None)), k + 1,
                                         Append(log, [applied |-> TRUE, idx |-> call.idx])) :
                                call \in MutateCalls(Self.problem, Referent(lists, k).genes) }
               ELSE {})

\* the mutation loop of optimize()
Mutate ==
    /\ step = "crossed"
    /\ \E loop \in MutationLoop(Lists(population, offspring), 1, << >>) :
           /\ LoopDone(loop.lists)
           /\ drawn' = loop.drawn
    \* from here on a copy is not told from the copies of other individuals
    /\ refs' = [k \in 1..Len(offspring) |->
                   IF refs[k].copy THEN [refs[k] EXCEPT !.individual = 0] ELSE refs[k]]
    /\ step' = "mutated"
    /\ UNCHANGED << engine, gen, elapsed_time, reported, returned >>
    /\ UNCHANGED << decoder_vars, service_vars, generator_vars >>

\* ind.fitness.values = fit for an individual that is not valid
Evaluated(ind) ==
    IF IsNone(ind.fitness)
    THEN Individual(ind.genes, Some(EvaluateFitness(Self.class, Self.problem, ind.genes)))
    ELSE ind

\* invalid_ind = [ind for ind in offspring if not ind.fitness.valid], which are
\* evaluated
ReEvaluate ==
    /\ step = "mutated"
    /\ offspring' = [k \in 1..Len(offspring) |-> Evaluated(offspring[k])]
    /\ population' =
           [l \in 1..Len(population) |->
               IF \E k \in 1..Len(offspring) : ~refs[k].copy /\ refs[k].individual = l
               THEN Evaluated(population[l])
               ELSE population[l]]
    /\ step' = "evaluated"
    /\ UNCHANGED << engine, gen, elapsed_time, reported, returned >>
    /\ drawn' = << >>
    /\ UNCHANGED refs
    /\ UNCHANGED << decoder_vars, service_vars, generator_vars >>

\* a replacement that carries the first individual of the population over
Replace_KeepFirst ==
    /\ step = "evaluated"
    /\ population' = [k \in 1..Len(offspring) |-> IF k = 1 THEN population[1] ELSE offspring[k]]
    /\ \E elapsed \in elapsed_time..MaxElapsed :
           /\ elapsed_time' = elapsed
           /\ reported' =
                  IF Self.progress_callback
                  THEN Append(reported,
                              OptimizationProgress(gen, Self.generations, BestFitness(offspring),
                                                   AvgFitness(offspring), elapsed))
                  ELSE reported
    /\ gen' = gen + 1
    /\ step' = "loop"
    /\ UNCHANGED << engine, offspring, returned >>
    /\ UNCHANGED << drawn, refs >>
    /\ UNCHANGED << decoder_vars, service_vars, generator_vars >>

\* population[:] = offspring, then the clock is read and _report_progress called
Replace ==
    /\ step = "evaluated"
    /\ population' = offspring
    /\ \E elapsed \in elapsed_time..MaxElapsed :
           /\ elapsed_time' = elapsed
           /\ reported' =
                  IF Self.progress_callback
                  THEN Append(reported,
                              OptimizationProgress(gen, Self.generations, BestFitness(offspring),
                                                   AvgFitness(offspring), elapsed))
                  ELSE reported
    /\ gen' = gen + 1
    /\ step' = "loop"
    /\ UNCHANGED << engine, offspring, returned >>
    /\ UNCHANGED << drawn, refs >>
    /\ UNCHANGED << decoder_vars, service_vars, generator_vars >>

\* the end of optimize() for the decode of the best individual
OptimizeEnd(decoded, generations, best_fitness) ==
    IF IsNone(decoded)
    THEN Raises(ValueError("values to unpack"))
    ELSE Returns(TheValue(decoded), generations, best_fitness)

\* after the loop: the best individual is decoded and the result returned
ReturnBest ==
    /\ step = "loop"
    /\ gen >= Self.generations
    /\ returned' = Some(OptimizeEnd(DecodeSolution(Self.class, Self.problem,
                                                   SelBest(population).genes),
                                    Self.generations,
                                    TheValue(SelBest(population).fitness)))
    /\ step' = IF TheValue(returned').raised THEN "raised" ELSE "returned"
    /\ UNCHANGED << engine, population, offspring, gen, elapsed_time, reported >>
    /\ UNCHANGED << drawn, refs >>
    /\ UNCHANGED << decoder_vars, service_vars, generator_vars >>

\* an optimizer has been instantiated; optimize() has not been called
InitSearch ==
    /\ DecoderInit({ScenarioA})
    /\ ServiceInit
    /\ GeneratorInit
    /\ engine \in { Some(o) : o \in Optimizers }
    /\ step = "instantiated"
    /\ population = << >>
    /\ offspring = << >>
    /\ gen = 0
    /\ elapsed_time = 0
    /\ reported = << >>
    /\ drawn = << >>
    /\ refs = << >>
    /\ returned = None

NextSearch ==
    \/ SetProgressCallback
    \/ CreatePopulation
    \/ Select
    \/ Clone
    \/ Crossover
    \/ Mutate
    \/ ReEvaluate
    \/ Replace
    \/ ReturnBest

SpecSearch == InitSearch /\ [][NextSearch]_vars

-----------------------------------------------------------------------------
(* Fitness *)

\* the individuals that exist in a state of the search
Individuals ==
    { population[k] : k \in 1..Len(population) } \cup { offspring[k] : k \in 1..Len(offspring) }

\* the container solutions of a result that hold at least one placed item
WithItems(res) ==
    { k \in 1..Len(res.container_solutions) :
          res.container_solutions[k].placed_packages # << >> }

\* the mean utilization_rate over the containers with items, 0 if there is none
MeanUtilization(res) ==
    IF WithItems(res) = {} THEN FracZero
    ELSE LET rates == [k \in 1..Len(res.container_solutions) |->
                          IF k \in WithItems(res)
                          THEN res.container_solutions[k].utilization_rate
                          ELSE FracZero]
         IN  FracDivInt(FracSumSeq(rates), Cardinality(WithItems(res)))

\* the number of containers whose usage gene is set
UsageGenesSet(prob, genes) ==
    Cardinality({ c \in 1..Len(prob.containers) :
                      genes[(c - 1) * (1 + Len(prob.packages)) + 1] # 0 })

\* fitness = efficiency * (1 - (used / total) * 0.1), cleared of fractions
IsClaimedFitness(fitness, efficiency, used, total) ==
    fitness.num * efficiency.den * 10 * total = fitness.den * efficiency.num * (10 * total - used)

\* C18: the fitness of every genome whose decode succeeds is total_efficiency *
\* (1 - (containers_used / total_containers) * 0.1), with total_efficiency the
\* mean utilization over the containers holding at least one item (0 if none),
\* containers_used the number of those containers and total_containers the
\* number of containers of the problem.
C18_FitnessFormula ==
    \A ind \in Individuals :
        (~IsNone(ind.fitness) /\ ~IsNone(DecodeSolution(Self.class, Self.problem, ind.genes))) =>
            LET res == TheValue(DecodeSolution(Self.class, Self.problem, ind.genes))
            IN  /\ res.total_efficiency = MeanUtilization(res)
                /\ ContainersUsed(res) = Cardinality(WithItems(res))
                /\ IsClaimedFitness(TheValue(ind.fitness), MeanUtilization(res),
                                    Cardinality(WithItems(res)), Len(Self.problem.containers))

\* an evaluated individual of positive fitness with more usage genes set than
\* containers holding an item
C18_Witness ==
    \E ind \in Individuals :
        /\ ~IsNone(ind.fitness)
        /\ ~IsNone(DecodeSolution(Self.class, Self.problem, ind.genes))
        /\ FracLess(FracZero, TheValue(ind.fitness))
        /\ UsageGenesSet(Self.problem, ind.genes) >
               Cardinality(WithItems(TheValue(DecodeSolution(Self.class, Self.problem, ind.genes))))

-----------------------------------------------------------------------------
(* Failing evaluations *)

\* decoding the genes of an individual raises
DecodeFails(ind) == IsNone(DecodeSolution(Self.class, Self.problem, ind.genes))

\* C19: a genome whose decode raises gets fitness 0 and the error is not
\* propagated: while the search runs the population keeps population_size
\* individuals, all with a valid fitness, and once a population exists
\* optimize() does not end with an exception but returns a result after all
\* generations, also when the best individual is one whose decode raises.
C19_EvaluationFailureNonFatal ==
    /\ \A ind \in Individuals :
           (~IsNone(ind.fitness) /\ DecodeFails(ind)) => TheValue(ind.fitness) = FracZero
    /\ step \in {"loop", "selected", "cloned", "crossed", "mutated", "evaluated", "returned"} =>
           /\ Len(population) = Self.population_size
           /\ \A k \in 1..Len(population) : ~IsNone(population[k].fitness)
    /\ population # << >> => step # "raised"
    /\ step = "returned" =>
           /\ gen = Self.generations
           /\ ~TheValue(returned).raised
           /\ ~IsNone(TheValue(returned).result)

-----------------------------------------------------------------------------
(* Progress reports *)

\* estimate = (elapsed / per) * left, cleared of fractions
IsClaimedEstimate(estimate, elapsed, per, left) ==
    per > 0 /\ estimate.num * per = estimate.den * elapsed * left

\* C20: with an observer set there is one progress record per generation
\* completed (`generations` records when optimize() returns), in strictly
\* increasing generation order, each with total_generations = generations, the
\* best and average fitness of the population just installed and an estimated
\* remaining time of (elapsed / generation) * (generations left to run), the
\* divisor read either as the index the record carries or as the number of
\* generations completed; without an observer nothing is reported.
C20_ProgressReporting ==
    ~IsNone(engine) =>
        IF Self.progress_callback
        THEN /\ step \in {"loop", "returned"} => Len(reported) = gen
             /\ step = "returned" => Len(reported) = Self.generations
             /\ \A k \in 1..Len(reported) :
                    /\ reported[k].total_generations = Self.generations
                    /\ k > 1 => reported[k - 1].current_generation < reported[k].current_generation
                    /\ ~IsNone(reported[k].estimated_time_remaining)
                    /\ \E per \in {k, reported[k].current_generation} :
                           IsClaimedEstimate(TheValue(reported[k].estimated_time_remaining),
                                             reported[k].elapsed_time, per,
                                             Self.generations - k)
             /\ (step = "loop" /\ gen > 0) =>
                    /\ reported[gen].best_fitness = BestFitness(population)
                    /\ reported[gen].average_fitness = AvgFitness(population)
        ELSE reported = << >>

-----------------------------------------------------------------------------
(* The individual returned *)

\* C21: the result optimize() returns is the decode of an individual of maximal
\* fitness in the final population; best_fitness is that individual's cached
\* fitness, equals the fitness formula applied to the returned
\* container_solutions, and equals the best fitness of the last progress record.
C21_BestIndividual ==
    step = "returned" =>
        \E k \in 1..Len(population) :
            /\ \A l \in 1..Len(population) :
                   FracLeq(TheValue(population[l].fitness), TheValue(population[k].fitness))
            /\ TheValue(returned).result =
                   DecodeSolution(Self.class, Self.problem, population[k].genes)
            /\ TheValue(returned).best_fitness = TheValue(population[k].fitness)
            /\ IsClaimedFitness(TheValue(returned).best_fitness,
                                MeanUtilization(TheValue(TheValue(returned).result)),
                                Cardinality(WithItems(TheValue(TheValue(returned).result))),
                                Len(Self.problem.containers))
            /\ reported # << >> =>
                   reported[Len(reported)].best_fitness = TheValue(returned).best_fitness

\* a result has been returned from a final population of unequal fitness whose
\* best individual is not the last one, after a progress record
C21_Witness ==
    /\ step = "returned"
    /\ reported # << >>
    /\ Len(population) > 1
    /\ FracLess(TheValue(population[Len(population)].fitness), TheValue(population[1].fitness))
    /\ FracLess(FracZero, TheValue(returned).best_fitness)

-----------------------------------------------------------------------------
(* Quantities placed *)

\* N(p): the units of a package type placed over all containers of a result
TotalUnits(res, package) ==
    SumSeq([s \in 1..Len(res.container_solutions) |->
               UnitsOf(res.container_solutions[s].placed_packages, package)])

\* C22: in every decoded result the number of placed units of each package
\* type, summed over all containers, lies between the package's min_quantity
\* and its max_quantity.
C22_QuantityRange ==
    \A ind \in Individuals :
        ~DecodeFails(ind) =>
            LET res == TheValue(DecodeSolution(Self.class, Self.problem, ind.genes))
            IN  \A j \in 1..Len(Self.problem.packages) :
                    /\ TotalUnits(res, Self.problem.packages[j]) >=
                           Self.problem.packages[j].min_quantity
                    /\ TotalUnits(res, Self.problem.packages[j]) <=
                           Self.problem.packages[j].max_quantity

-----------------------------------------------------------------------------
(* The mutation step *)

\* the container (1-based) in whose block gene i (1-based) lies, and the place
\* of the gene in the block: 0 for the usage gene, j for the j-th package
BlockOf(prob, i) == ((i - 1) \div (1 + Len(prob.packages))) + 1
PlaceOf(prob, i) == (i - 1) % (1 + Len(prob.packages))

\* the genes of two genomes agree everywhere except possibly at gene i
SameExceptAt(before, after, i) ==
    /\ Len(after) = Len(before)
    /\ \A l \in 1..Len(before) : l # i => after[l] = before[l]

\* gene i of `after` is a quantity of the package at its layout position
QuantityInRange(prob, after, i) ==
    /\ after[i] >= prob.packages[PlaceOf(prob, i)].min_quantity
    /\ after[i] <= prob.packages[PlaceOf(prob, i)].max_quantity

\* the step from the crossed offspring to the mutated offspring
MutateStep == step = "crossed" /\ step' = "mutated"

-----------------------------------------------------------------------------
(* The fitness cache *)

\* the cached fitness of an individual is the fitness of the genes it has
IsCoherent(ind) ==
    ind.fitness = Some(EvaluateFitness(Self.class, Self.problem, ind.genes))

\* no individual holds a fitness that is not the fitness of its genes, and at
\* a generation boundary every individual of the population holds a fitness
CacheCoherent ==
    /\ \A ind \in Individuals : ~IsNone(ind.fitness) => IsCoherent(ind)
    /\ step \in {"loop", "returned", "raised"} =>
           \A k \in 1..Len(population) : IsCoherent(population[k])

\* the step that evaluates: exactly the offspring without a valid fitness are
\* given one, every other offspring is left as it is
ReEvaluateStep ==
    (step = "mutated" /\ step' = "evaluated") =>
        /\ Len(offspring') = Len(offspring)
        /\ \A k \in 1..Len(offspring) :
               IF IsNone(offspring[k].fitness)
               THEN offspring'[k] =
                        Individual(offspring[k].genes,
                                   Some(EvaluateFitness(Self.class, Self.problem, offspring[k].genes)))
               ELSE offspring'[k] = offspring[k]

\* C24: in each generation the fitness is recomputed for exactly the offspring
\* whose cached fitness crossover or mutation invalidated; at every generation
\* boundary every individual of the population has a valid cached fitness equal
\* to the fitness of its current genes, and no individual keeps a stale fitness.
C24_CacheCoherence == [][ReEvaluateStep]_vars /\ []CacheCoherent

\* the evaluation has run on offspring of which one has genes no member of the
\* population has, and another was left with the fitness it was cloned with
C24_Witness ==
    /\ step = "evaluated"
    /\ \E k \in 1..Len(offspring) :
           /\ \A l \in 1..Len(population) : offspring[k].genes # population[l].genes
           /\ ~IsNone(offspring[k].fitness)
           /\ FracLess(FracZero, TheValue(offspring[k].fitness))

-----------------------------------------------------------------------------
(* Crossover *)

CrossoverStep == step = "cloned" /\ step' = "crossed"

\* at index i the two children hold the two values the pair held before
ExchangedAt(before1, before2, after1, after2, i) ==
    \/ after1[i] = before1[i] /\ after2[i] = before2[i]
    \/ after1[i] = before2[i] /\ after2[i] = before1[i]

-----------------------------------------------------------------------------
(* Replacement *)

SelectStep == step = "loop" /\ step' = "selected"

ReplaceStep == step = "evaluated" /\ step' = "loop"

\* `ind` wins a tournament of three aspirants drawn with replacement from pop
WinsTournament(pop, ind) ==
    \E aspirants \in [1..3 -> 1..Len(pop)] :
        /\ \E j \in 1..3 : pop[aspirants[j]] = ind
        /\ \A j \in 1..3 : FracLeq(TheValue(pop[aspirants[j]].fitness), TheValue(ind.fitness))

\* C26: the replacement is generational and has no elitism: the selection
\* yields population_size winners of size-3 tournaments with replacement, the
\* offspring are their clones (crossed and mutated afterwards), and Replace
\* installs exactly these offspring as the population, so the population keeps
\* population_size individuals and none of the previous ones is carried over
\* without having been selected.
C26_GenerationalReplacement ==
    /\ [][SelectStep =>
             /\ Len(offspring') = Self.population_size
             /\ \A k \in 1..Len(offspring') : WinsTournament(population, offspring'[k])]_vars
    /\ [][ReplaceStep =>
             /\ population' = offspring
             /\ Len(population') = Self.population_size]_vars
    /\ [](step \in {"loop", "selected", "cloned", "crossed", "mutated", "evaluated", "returned"}
             => Len(population) = Self.population_size)

\* two generations have been reported and the best fitness of the second
\* population is strictly below that of the first
C26_Witness ==
    /\ Len(reported) = 2
    /\ FracLess(reported[2].best_fitness, reported[1].best_fitness)

-----------------------------------------------------------------------------
(* Well-formed genomes *)

\* genes is a genome of the problem: C*(1+P) genes, the usage gene of a
\* mandatory container 1 and of an optional one 0 or 1, the quantity genes
\* within the range of their package
WellFormed(prob, genes) ==
    /\ Len(genes) = Len(prob.containers) * (1 + Len(prob.packages))
    /\ \A i \in 1..Len(genes) :
           IF PlaceOf(prob, i) = 0
           THEN genes[i] \in (IF prob.containers[BlockOf(prob, i)].is_optional
                              THEN {0, 1} ELSE {1})
           ELSE QuantityInRange(prob, genes, i)

\* C27: at every point of a run every individual of the population and of the
\* offspring is a well-formed genome: creation, crossover and mutation keep the
\* length C*(1+P), the usage gene 1 of mandatory containers, usage genes of
\* optional containers in {0,1} and quantity genes in [min_quantity, max_quantity].
C27_WellFormedGenomes ==
    \A ind \in Individuals : WellFormed(Self.problem, ind.genes)

\* a mutation drew the usage gene of the mandatory first container of an
\* offspring that came out of a crossover, and the gene is still 1
C27_Witness ==
    /\ step = "mutated"
    /\ \E k \in 1..Len(offspring) :
           /\ drawn[k].applied
           /\ drawn[k].idx = Some(0)
           /\ offspring[k].genes[1] = 1
           /\ \A l \in 1..Len(population) : offspring[k].genes # population[l].genes

-----------------------------------------------------------------------------
(* The partition of the containers *)

\* the position in the problem of the containers of a list of containers
PositionsOf(containers) ==
    [k \in 1..Len(containers) |->
        CHOOSE c \in 1..NC : problem.containers[c] = containers[k]]

\* a list of positions that keeps the order of the problem
Ascending(positions) ==
    \A k, l \in 1..Len(positions) : k < l => positions[k] < positions[l]

\* the usage gene of the c-th container (1-based) of the genome being decoded
UsageGene(c) == individual[(c - 1) * (1 + NP) + 1]

CloseStep == pc = "place" /\ pc' = "container"

\* the lists of a finished decode split the containers of the problem
Partitioned ==
    pc = "done" =>
        LET solved == PositionsOf([k \in 1..Len(container_solutions) |->
                                       container_solutions[k].container])
            unused == PositionsOf(unused_containers)
        IN  /\ Len(solved) + Len(unused) = NC
            /\ \A c \in 1..NC :
                   Cardinality({ k \in 1..Len(solved) : solved[k] = c })
                   + Cardinality({ k \in 1..Len(unused) : unused[k] = c }) = 1
            /\ Ascending(solved)
            /\ Ascending(unused)
            /\ \A k \in 1..Len(solved) :
                   /\ UsageGene(solved[k]) # 0
                   /\ container_solutions[k].placed_packages # << >>
            /\ \A c \in 1..NC :
                   UsageGene(c) = 0 => \E k \in 1..Len(unused) : unused[k] = c
            /\ TheValue(result).container_solutions = container_solutions
            /\ TheValue(result).unused_containers = unused_containers

\* C28: a decode puts every container of the problem exactly once in
\* container_solutions or in unused_containers: in container_solutions exactly
\* when its usage gene is set and at least one unit was placed in it, so that
\* every ContainerSolution has placed packages and a mandatory container in
\* which nothing could be placed is unused; both lists keep the order of the
\* containers of the problem.
C28_ContainerPartition ==
    /\ []Partitioned
    /\ [][CloseStep =>
             IF placed_packages # << >>
             THEN /\ Len(container_solutions') = Len(container_solutions) + 1
                  /\ container_solutions'[Len(container_solutions')].container
                         = problem.containers[ci]
                  /\ container_solutions'[Len(container_solutions')].placed_packages
                         = placed_packages
                  /\ unused_containers' = unused_containers
             ELSE /\ unused_containers' = Append(unused_containers, problem.containers[ci])
                  /\ container_solutions' = container_solutions]_vars

\* a decode has ended with the first container solved and the mandatory second
\* one, in which nothing fits, unused
C28_Witness ==
    /\ pc = "done"
    /\ NC = 2
    /\ Len(container_solutions) = 1
    /\ container_solutions[1].container = problem.containers[1]
    /\ unused_containers = << problem.containers[2] >>
    /\ ~problem.containers[2].is_optional
    /\ UsageGene(2) = 1

-----------------------------------------------------------------------------
(* Unplaced packages *)

Max(a, b) == IF a >= b THEN a ELSE b

PackageNames(prob) == { prob.packages[j].name : j \in 1..Len(prob.packages) }

\* unplaced_packages[p] = max(0, max_quantity(p) - N(p)) for every package p of
\* the problem, and the dict has no other key
UnplacedBookkeeping(prob, res) ==
    /\ DOMAIN res.unplaced_packages = PackageNames(prob)
    /\ \A j \in 1..Len(prob.packages) :
           LET package == prob.packages[j]
               count == res.unplaced_packages[package.name]
           IN  /\ count = Max(0, package.max_quantity - TotalUnits(res, package))
               /\ count >= 0
               /\ count <= package.max_quantity

\* the usage gene of the container to whose block gene i (1-based) belongs
UsageGeneOf(prob, genes, i) == genes[(BlockOf(prob, i) - 1) * (1 + Len(prob.packages)) + 1]

\* the genomes that differ from genes at most in quantity genes of containers
\* whose usage gene is 0
SameButSwitchedOff(prob, genes) ==
    { other \in Genomes(prob) :
          \A i \in 1..Len(genes) :
              other[i] # genes[i] =>
                  /\ PlaceOf(prob, i) # 0
                  /\ UsageGeneOf(prob, genes, i) = 0 }

\* C29: in every decoded result unplaced_packages has one entry per package
\* name, equal to max(0, max_quantity - N) for the N units of the package
\* placed over all containers, hence within [0, max_quantity] also when more
\* than max_quantity units are placed; the quantity genes of containers that
\* are switched off have no effect on it.
C29_UnplacedBookkeeping ==
    \A ind \in Individuals :
        ~DecodeFails(ind) =>
            LET res == TheValue(DecodeSolution(Self.class, Self.problem, ind.genes))
            IN  /\ UnplacedBookkeeping(Self.problem, res)
                /\ \A other \in SameButSwitchedOff(Self.problem, ind.genes) :
                       TheValue(DecodeSolution(Self.class, Self.problem, other)).unplaced_packages
                           = res.unplaced_packages

\* the returned result holds more units of the package than its max_quantity
\* and its unplaced count is 0, while another member of the population has its
\* second container switched off with a quantity gene that asks for a unit
C29_Witness ==
    /\ step = "returned"
    /\ LET res == TheValue(TheValue(returned).result)
           package == Self.problem.packages[1]
       IN  /\ TotalUnits(res, package) > package.max_quantity
           /\ res.unplaced_packages[package.name] = 0
    /\ \E k \in 1..Len(population) : population[k].genes = << 1, 0, 0, 1 >>
-----------------------------------------------------------------------------
(* Independence of the offspring *)

\* the offspring the crossover loop pairs with offspring k, 0 if there is none
PartnerOf(k) ==
    IF k % 2 = 1
    THEN (IF k + 1 <= Len(offspring) THEN k + 1 ELSE 0)
    ELSE k - 1

\* C30: every offspring is a copy of its own of the selected individual:
\* crossover and mutation never change a member of the population, a crossover
\* changes an offspring only together with the partner it is mated with, and
\* a mutation changes only the offspring it is applied to, also when the
\* tournaments selected the same individual several times.
C30_OffspringIndependence ==
    /\ [][CrossoverStep =>
             /\ population' = population
             /\ \A k \in 1..Len(offspring) :
                    offspring'[k] # offspring[k] =>
                        /\ PartnerOf(k) # 0
                        /\ IsNone(offspring'[k].fitness)
                        /\ IsNone(offspring'[PartnerOf(k)].fitness)]_vars
    /\ [][MutateStep =>
             /\ population' = population
             /\ \A k \in 1..Len(offspring) :
                    ~drawn'[k].applied => offspring'[k] = offspring[k]]_vars

\* both offspring are copies of the same individual and have been mated: their
\* fitness is deleted, that of the individual they were copied from is not
C30_Witness ==
    /\ step = "crossed"
    /\ Len(offspring) = 2
    /\ refs[1].copy /\ refs[2].copy
    /\ refs[1].individual = refs[2].individual
    /\ IsNone(offspring[1].fitness)
    /\ IsNone(offspring[2].fitness)
    /\ ~IsNone(population[refs[1].individual].fitness)
    /\ population[1].genes # population[2].genes

=============================================================================
